---------------------------- MODULE Spec2Model ----------------------------
(***************************************************************************)
(* Model of the battery-registry pipeline of app.py: schema normalisation, *)
(* outlier filtering, owner and grid-operator consolidation, multi-part    *)
(* project aggregation, and the loader get_data with the module-level      *)
(* summary statistics that consume its result.                             *)
(*                                                                         *)
(* Representation.  A table is a record [cols, dup, rows]: cols is the set *)
(* of column names, dup the column names that occur more than once, rows a *)
(* sequence of functions from column name to cell.  Text cells are         *)
(* strings, NaNStr standing for a missing text cell.  Numeric cells are    *)
(* <<>> (NaN / None / NaT) or <<n>>, n in thousandths of the unit (MW, MWh)*)
(* or a plain integer (year).  A duration is <<>> or a reduced fraction    *)
(* <<num, den>> of hours; <<1, 0>> and <<-1, 0>> are +inf and -inf.        *)
(* Raw csv cells carry a tag: <<"num", n>>, <<"txt", s>> or <<"nan">>.     *)
(***************************************************************************)
EXTENDS Integers, Sequences, FiniteSets, TLC

\* OPERATOR_GROUPS: (parent label, aliases) pairs in dict order (app.py:96-406)
OPERATOR_GROUPS ==
  << << "ECO STOR",
       << "ECO POWER FOUR GmbH",
          "ECO POWER SIX GmbH",
          "ECO POWER THREE GmbH",
          "ECO POWER ONE GmbH",
          "ECO POWER TWO GmbH" >> >>,
     << "East Energy",
       << "East Energy PV Wiendorf GmbH & Co.KG",
          "East Energy PV Rostock GmbH & Co.KG",
          "East Energy PV Wentow GmbH & Co.KG",
          "East Energy PV Detershagen GmbH & Co. KG",
          "East Energy PV Klevenow GmbH & Co. KG",
          "East Energy PV Werle GmbH & Co. KG" >> >>,
     << "RWE",
       << "RWE Generation SE",
          "RWE Supply & Trading GmbH",
          "RWE Battery Solutions GmbH",
          "RWE Wind Onshore & PV Deutschland GmbH",
          "RWE Neuland Erneuerbare Energien GmbH & Co. KG" >> >>,
     << "Kyon Energy",
       << "Kyon-51 Battery Storage GmbH",
          "Kyon Storage 232 GmbH",
          "Kyon-42 Battery Storage GmbH",
          "Kyon-100 Battery Storage GmbH",
          "Kyon-41 Battery Storage GmbH",
          "Kyon-50 Battery Storage GmbH",
          "Kyon-29 Battery Storage GmbH" >> >>,
     << "Anumar",
       << "Anumar Solarpark Inchenhofen GmbH & Co. KG",
          "Anumar Solarpark Martinsheim GmbH & Co. KG",
          "Anumar Solarpark Vohburg-Oberdolling GmbH & Co. KG",
          "Anumar Solarpark Schrobenhausen-Öd GmbH & Co. KG",
          "Anumar Solarpark Edelshausen II GmbH & Co. KG",
          "Anumar Solarpark Dielkirchen GmbH & Co. KG",
          "Anumar Solarpark Dettelbach GmbH & Co. KG",
          "Anumar Solarpark Altdorf II GmbH & Co. KG",
          "Anumar Solarpark Feuchtwangen GmbH & Co. KG",
          "Anumar Solarpark Seubersdorf GmbH & Co. KG",
          "Anumar Solarpark Weil III GmbH & Co. KG",
          "Anumar Solarpark Dasing GmbH & Co. KG",
          "Anumar Solarpark Barbing II GmbH & Co. KG",
          "Anumar Solarpark Großmehring II GmbH & Co. KG",
          "Anumar Solarpark Velburg VI GmbH & Co. KG",
          "Anumar Solarpark Prosselsheim GmbH & Co. KG",
          "Anumar Solarpark Colbitz II GmbH & Co. KG",
          "Anumar Solarpark Oberschleißheim GmbH & Co. KG",
          "Anumar Solarpark Hilgertshausen-Tandern GmbH & Co. KG",
          "Anumar Solarpark Sparneck GmbH & Co. KG",
          "Anumar Solarpark Seetz GmbH & Co. KG",
          "Anumar Solarpark Schweitenkirchen GmbH & Co. KG",
          "Anumar Solarpark Winterbach RLP GmbH & Co. KG",
          "Anumar Solarpark Wolnzach-Gebrontshausen GmbH & Co. KG",
          "Anumar Solarpark Mögglingen GmbH & Co. KG",
          "Anumar Solarpark Neustadt a. d. Donau GmbH & Co. KG",
          "Anumar Solarpark Siglohe GmbH & Co. KG",
          "Anumar Solarpark Wernberg-Köblitz GmbH & Co. KG",
          "Anumar Solarpark Kühbach V GmbH & Co. KG",
          "Anumar Solarpark Gachenbach-Peutenhausen GmbH & Co. KG",
          "Anumar Solarpark Beilngries-Kirchbuch GmbH & Co. KG",
          "Anumar Solarpark Karlskron-Pobenhausen GmbH & Co. KG",
          "Anumar Solarpark Wölfersheim GmbH & Co. KG",
          "Anumar Solarpark Rohrbach XI GmbH & Co. KG",
          "Anumar Solarpark Wolnzach VI GmbH & Co. KG",
          "Anumar Solarpark Mallersdorf-Pfaffenberg GmbH & Co. KG",
          "Anumar Solarpark Freystadt-Höfen GmbH & Co. KG",
          "Anumar Solarpark Ingolstadt VI GmbH & Co. KG",
          "Anumar Solarpark Petersberg GmbH & Co. KG",
          "Anumar Solarpark Menning GmbH & Co. KG",
          "Anumar Solarpark Wolnzach III GmbH & Co. KG",
          "Anumar Solarpark Bad Camberg GmbH & Co. KG",
          "Anumar Solarpark Jetzendorf GmbH & Co. KG",
          "Anumar Solarpark Burkau GmbH & Co. KG",
          "Anumar Solarpark Meeder IV GmbH & Co. KG",
          "Anumar Solarpark Kirchhaslach GmbH & Co. KG",
          "Anumar Solarpark Mosbach GmbH & Co. KG",
          "Anumar Solarpark Seckach III GmbH & Co. KG",
          "Anumar Solarpark Beilngries-Arnbuch GmbH & Co. KG",
          "Anumar Solarpark Parsberg V GmbH & Co. KG",
          "Anumar Solarpark Denkendorf GmbH & Co. KG",
          "Anumar Solarpark Laaber GmbH & Co. KG",
          "Anumar Solarpark Stamsried GmbH & Co. KG",
          "Anumar Solarpark Winterbach II GmbH & Co. KG",
          "Anumar Solarpark Weinheim GmbH & Co. KG",
          "Anumar Solarpark Schernfeld GmbH & Co. KG",
          "Anumar Solarpark Trugenhofen-Rohrbach-Rennertshofen GmbH & Co. KG",
          "Anumar Solarpark Schnelldorf GmbH & Co. KG",
          "Anumar Solarpark Beratzhausen GmbH & Co. KG",
          "Anumar Solarpark Werne GmbH & Co. KG",
          "Anumar Solarpark Großrinderfeld GmbH & Co. KG",
          "Anumar Solarpark Vierkirchen GmbH & Co. KG",
          "Anumar Solarpark Ingolstadt-Etting GmbH & Co. KG",
          "Anumar Solarpark Ingolstadt VII GmbH & Co. KG",
          "Anumar Solarpark Steinach II GmbH & Co. KG",
          "Anumar Solarpark Allershausen GmbH & Co. KG",
          "Anumar Solarpark Uettingen GmbH & Co. KG",
          "Anumar Solarpark Reichertshofen-Winden GmbH & Co. KG",
          "Anumar Solarpark Eching GmbH & Co. KG",
          "Anumar Solarpark Wolfratshausen GmbH & Co. KG",
          "Anumar Solarpark Seubersdorf PR GmbH & Co. KG",
          "Anumar Solarpark Altmannstein GmbH & Co. KG",
          "Anumar Solarpark Adelsheim GmbH & Co. KG" >> >>,
     << "Ju:niz",
       << "SMAREG4 GmbH & Co. KG",
          "SMAREG 6 GmbH & Co. KG",
          "SMAREG8 GmbH & Co. KG",
          "SMAREG9 GmbH & Co. KG",
          "SMAREG12 GmbH & Co.KG",
          "SMAREG3 GmbH & Co. KG",
          "SMAREG5 GmbH & Co. KG",
          "SMAREG7 GmbH & Co. KG",
          "SMAREG 1",
          "SMAREG14 GmbH & Co.KG" >> >>,
     << "Obton",
       << "Obton Alfeld GmbH & Co. KG",
          "Obton Storage GmbH & Co. KG",
          "Obton Karstädt GmbH & Co. KG",
          "Obton Tangermünde GmbH & Co. KG" >> >>,
     << "EnBW",
       << "EnBW Energie Baden-Württemberg AG",
          "EnBW Solar GmbH",
          "EnBW Windkraftprojekte GmbH",
          "EnBW Solarpark Gottesgabe GmbH",
          "EnBW SunInvest GmbH & Co. KG" >> >>,
     << "ENERPARC",
       << "ENERPARC Solar Invest 243 EU 1.7 GmbH",
          "ENERPARC Solar Invest 222 GmbH",
          "ENERPARC Solar Invest 211 TU 2 GmbH",
          "ENERPARC Solar Invest 182 GmbH",
          "ENERPARC Solar Invest 230 TU 32 GmbH & Co. KG",
          "ENERPARC Solar Invest 230 TU 28 GmbH & Co. KG",
          "ENERPARC Solar Invest 273 GmbH",
          "ENERPARC Solar Invest 230 TU 7 GmbH & Co. KG",
          "ENERPARC Solar Invest 230 TU 33 GmbH & Co. KG",
          "ENERPARC Solar Invest 230 TU 31 GmbH & Co. KG",
          "ENERPARC Solar Invest 274 GmbH",
          "ENERPARC Solar Invest 211 TU 3 GmbH",
          "ENERPARC Solar Invest 230 TU 38 GmbH & Co. KG",
          "ENERPARC Solar Invest 216 GmbH",
          "ENERPARC Solar Invest 230 TU 36 GmbH & Co. KG",
          "ENERPARC Solar Invest 230 TU 25 GmbH & Co. KG",
          "ENERPARC Solar Invest 243 EU 1.9 GmbH & Co. KG",
          "ENERPARC Solar Invest 230 TU 35 GmbH & Co. KG",
          "ENERPARC Solar Invest 230 TU 1 GmbH & Co. KG",
          "ENERPARC Solar Invest 192 GmbH",
          "ENERPARC Solar Invest 169 GmbH",
          "ENERPARC Solar Invest 202 GmbH",
          "ENERPARC Solar Invest 257 GmbH",
          "ENERPARC Solar Invest 230 TU 59 GmbH & Co. KG",
          "ENERPARC Solar Invest 230 TU 24 GmbH & Co. KG",
          "ENERPARC Solar Invest 272 GmbH",
          "ENERPARC Solar Invest 230 TU 37 GmbH & Co. KG",
          "ENERPARC Solar Invest 230 TU 26 GmbH & Co. KG",
          "ENERPARC Solar Invest 123 GmbH",
          "ENERPARC Solar Invest 253 GmbH" >> >>,
     << "Iqony",
       << "Iqony Battery System",
          "Iqony 2. Battery System GmbH" >> >>,
     << "trlyr",
       << "trlyr 8 GmbH & Co. KG",
          "trlyr 9 GmbH & Co. KG",
          "trlyr 4 GmbH & Co. KG",
          "trlyr 5 GmbH & Co. KG",
          "trlyr 3 GmbH & Co. KG",
          "trlyr2 GmbH",
          "trlyr1 GmbH" >> >>,
     << "BESS",
       << "BESS Neumünster GmbH & Co. KG",
          "BESS Oberröblingen GmbH & Co. KG",
          "BESS Quedlinburg GmbH & Co. KG",
          "BESS Brietlingen",
          "BESS Hettstedt Fünfte Energie GmbH",
          "BESS Königsee GmbH",
          "BESS Kolitzheim 1 GmbH & Co. KG" >> >>,
     << "TEP",
       << "TEP Juno GmbH & Co. KG",
          "TEP Melpomene GmbH & Co. KG",
          "TEP Thalia GmbH & Co. KG",
          "TEP Eunomia GmbH & Co. KG",
          "TEP Irene GmbH & Co. KG",
          "TEP Flora",
          "TEP Vesta Gmbh & Co. KG",
          "TEP Lipperhey GmbH & Co. KG",
          "TEP Fortuna GmbH & Co. KG",
          "TEP Lutetia GmbH & Co. KG" >> >>,
     << "BES",
       << "BES Bennewitz GmbH & Co. KG",
          "BES Groitzsch GmbH& Co. KG",
          "BES Langenreichenbach GmbH & Co. KG",
          "BES Dresden Süd GmbH & Co. KG" >> >>,
     << "Sunnic Lighthouse",
       << "Sunnic Lighthouse Solar Invest 11 TU 2 GmbH",
          "Sunnic Lighthouse Solar Invest 17 GmbH",
          "Sunnic Lighthouse Solar Invest 20 GmbH",
          "Sunnic Lighthouse Solar Invest 18 TU 11 GmbH & Co. KG",
          "Sunnic Lighthouse Solar Invest 18 TU 6 GmbH & Co. KG",
          "Sunnic Lighthouse Solar Invest 18 TU 4 GmbH & Co. KG",
          "Sunnic Lighthouse Solar Invest 18 TU 13 GmbH & Co. KG",
          "Sunnic Lighthouse Solar Invest 18 TU 3 GmbH & Co. KG" >> >>,
     << "Bürgerwindpark",
       << "Bürgerwindpark Reußenköge GmbH & Co. KG",
          "Fünfundzwanzigste Bürgerwindpark GmbH & Co. KG",
          "Dreißigste Bürgerwindpark GmbH & Co. KG" >> >>,
     << "UGE",
       << "UGE Lübbenau GmbH & Co. KG Umweltgereche Energie",
          "UGE Laubst GmbH & Co. KG Umweltgereche Energie",
          "UGE Neuwiese GmbH & Co. KG Umweltgereche Energie" >> >>,
     << "MJ Solarbetriebsgesellschaft",
       << "MJ 6. Solarbetriebsgesellschaft",
          "MJ 13. Solarbetriebsgesellschaft",
          "MJ 12. Solarbetriebsgesellschaft" >> >>,
     << "Vattenfall",
       << "Vattenfall Solar Neubrandenburg GmbH & Co. KG",
          "Vattenfall Solar InnoA GmbH" >> >>,
     << "ABO Energy",
       << "ABO Energy Solarpark 8 GmbH & Co. KG",
          "ABO Wind Solarpark 2 GmbH & Co. KG",
          "ABO Wind Solarpark 11 GmbH & Co. KG",
          "ABO Energy Solarpark 11 GmbH & Co. KG",
          "ABO Energy Solarpark 3 GmbH & Co. KG",
          "ABO Energy Solarpark 7 GmbH & Co. KG",
          "ABO Wind Biogas Barby GmbH & Co. KG" >> >>,
     << "ESG",
       << "ESG Kraftwerke I GmbH",
          "ESG Speicherwerke I GmbH & Co. KG" >> >>,
     << "Volkswagen",
       << "Volkswagen Group Charging",
          "VW Kraftwerk GmbH" >> >>,
     << "Energiegesellschaft Balder",
       << "Energiegesellschaft Balder MV III mbH & Co. KG",
          "Energiegesellschaft Balder MV II GmbH & Co. KG" >> >>,
     << "Sonnenwerk",
       << "Sonnenwerk Issigau Reitzenstein GmbH & Co. KG",
          "Sonnenwerk Kirchenlamitz GmbH & Co. KG",
          "Sonnenwerk Zell im Fichtelgebirge GmbH & Co. KG" >> >>,
     << "LHI",
       << "LHI SolarWind PV Gammertingen 2695 GmbH & Co. KG",
          "LHI SolarWind PV Letschin 2683 GmbH & Co. KG",
          "LHI EE Invest PV Lübars 2699 GmbH & Co. KG",
          "LHI GII3 PV Badem Gindorf 2697 GmbH & Co.KG" >> >>,
     << "Sonnenkraft",
       << "Sonnenkraft Marnitz 3 GmbH",
          "Sonnenkraft Emkendorf GmbH & Co. KG" >> >>,
     << "VPS BATTERY PARK",
       << "VPS BATTERY PARK 1 GmbH & Co. KG",
          "VPS BATTERY PARK 2 GmbH & Co. KG" >> >>,
     << "RP Deutschland",
       << "RP Deutschland 1 UG",
          "RP Deutschland 11 UG" >> >>,
     << "ECO BATTERY PARK",
       << "ECO BATTERY PARK 4 GmbH & Co. KG",
          "ECO BATTERY PARK 3 GmbH & Co. KG",
          "ECO BATTERY PARK 5 GmbH & Co. KG" >> >>,
     << "Mando Multiwerke",
       << "Mando Multiwerke Nr. 6 GmbH & Co. KG",
          "Mando Multiwerke Nr.8 GmbH & Co.KG",
          "Mando Multiwerke Nr. 1 GmbH & Co. KG" >> >>,
     << "EnValue",
       << "EnValue MSE SP Großmehring I GmbH & Co. KG",
          "EnValue Solarpark 29 GmbH & Co. KG",
          "EnValue Solarpark 43 GmbH & Co. KG",
          "EnValue Solarpark 36 GmbH & Co. KG",
          "EnValue Solarpark 35 GmbH & Co. KG" >> >>,
     << "GPJ Energiepark",
       << "GPJ Energiepark Zeller-Land 3 GmbH & Co. KG",
          "GPJ Energiepark Zeller-Land 2 GmbH & Co. KG" >> >>,
     << "PEE",
       << "PEE2 GmbH & Co. KG",
          "PEE3 GmbH & Co. KG",
          "PEE4 GmbH & Co. KG" >> >>,
     << "Lintas Energiepark",
       << "27. Lintas Energiepark GmbH & Co. KG",
          "29. Lintas Energiepark GmbH & Co. KG" >> >>,
     << "Eneco",
       << "EnspireME" >> >> >>

\* NETZBETREIBER_GROUPS: (parent label, aliases) pairs in dict order (app.py:420-440)
NETZBETREIBER_GROUPS ==
  << << "50Hertz",
       << "50Hertz Transmission GmbH" >> >>,
     << "Amprion",
       << "Amprion GmbH" >> >>,
     << "TenneT",
       << "TenneT TSO GmbH" >> >>,
     << "TransnetBW",
       << "TransnetBW GmbH" >> >>,
     << "Westnetz",
       << "Westnetz GmbH" >> >>,
     << "E.DIS Netz",
       << "E.DIS Netz GmbH" >> >>,
     << "Bayernwerk Netz",
       << "Bayernwerk Netz GmbH",
          "Bayernwerk Netz GmbH; Elektrizitätswerk Goldbach-Hösbach GmbH & Co. KG" >> >>,
     << "Avacon Netz",
       << "Avacon Netz GmbH" >> >>,
     << "Mitteldeutsche Netzgesellschaft",
       << "Mitteldeutsche Netzgesellschaft Strom mbH" >> >>,
     << "LEW Verteilnetz",
       << "LEW Verteilnetz GmbH" >> >>,
     << "Schleswig-Holstein Netz",
       << "Schleswig-Holstein Netz GmbH" >> >>,
     << "TEN Thüringer Energienetze",
       << "TEN Thüringer Energienetze GmbH & Co. KG" >> >>,
     << "WEMAG Netz",
       << "WEMAG Netz GmbH" >> >>,
     << "N-ERGIE Netz",
       << "N-ERGIE Netz GmbH" >> >>,
     << "EWE NETZ",
       << "EWE NETZ GmbH" >> >>,
     << "Netze BW",
       << "Netze BW GmbH" >> >> >>

\* a table in which two groups list the same part
PROJECT_GROUPS_SharedPart ==
  << << "Speicher Beilrode I",
       << "Speicher Beilrode I - Teilanlage 1",
          "Speicher Beilrode I - Teilanlage 5",
          "Speicher Beilrode I - Teilanlage 6" >> >>,
     << "Speicher Polt III",
       << "Speicher Polt III 4.600 kW(Teil 1)",
          "Speicher Polt III  (Teil 2)",
          "Speicher Beilrode I - Teilanlage 6" >> >> >>

\* PROJECT_GROUPS: (parent label, aliases) pairs in dict order (app.py:518-565)
PROJECT_GROUPS ==
  << << "Speicher Beilrode I",
       << "Speicher Beilrode I - Teilanlage 1",
          "Speicher Beilrode I - Teilanlage 5",
          "Speicher Beilrode I - Teilanlage 6" >> >>,
     << "Speicher Beilrode II",
       << "Speicher Beilrode II - Teilanlage 1",
          "Speicher Beilrode II - Teilanlage 2 (Inn24-1-047)" >> >>,
     << "Speicher Jerchel West",
       << "Speicher Jerchel West - Teilanlage 2",
          "Speicher Jerchel West - Teilanlage 3" >> >>,
     << "Speicher Martinsheim",
       << "Speicher Martinsheim - P23-148 - Teil 1",
          "Speicher Martinsheim - P23-148 - Teil 2" >> >>,
     << "Speicher Schrobenhausen IX",
       << "Speicher Schrobenhausen IX - P22-591 - Teil 1",
          "Speicher Schrobenhausen IX - P22-591 - Teil 2" >> >>,
     << "Speicher Schrobenhausen-Sandizell I",
       << "Speicher Schrobenhausen-Sandizell I - P20-105 - Teil 1",
          "Speicher Schrobenhausen-Sandizell I - P20-105 - Teil 2" >> >>,
     << "Speicher Prosselsheim",
       << "Speicher Prosselsheim - P23-089 - Teil 1",
          "Speicher Prosselsheim - P23-089 - Teil 2" >> >>,
     << "Speicher Colbitz II",
       << "Speicher Colbitz II - P23-206 - Teil 1",
          "Speicher Colbitz II - P23-206 - Teil 2" >> >>,
     << "Speicher Mallersdorf-Pfaffenberg II",
       << "Speicher Mallersdorf-Pfaffenberg II - P23-120 - Teil 1",
          "Speicher Mallersdorf-Pfaffenberg II - P23-120 - Teil 2" >> >>,
     << "Speicher GG III",
       << "GG III 8.111,04 kWp (Teil I) Speicher",
          "Speicher GG III (Teil 2)" >> >>,
     << "Speicher Polt III",
       << "Speicher Polt III 4.600 kW(Teil 1)",
          "Speicher Polt III  (Teil 2)" >> >> >>
\* _PROJECT_LOOKUP / _OPERATOR_LOOKUP / nb_lookup: the loops that build a
\* reverse lookup; a later entry for the same key overwrites an earlier one.
Range(s) == {s[i] : i \in DOMAIN s}

BuildLookup(groups) ==
  [entity \in UNION {Range(groups[g][2]) : g \in DOMAIN groups} |->
     LET last == CHOOSE g \in DOMAIN groups :
                   /\ entity \in Range(groups[g][2])
                   /\ \A h \in DOMAIN groups :
                        entity \in Range(groups[h][2]) => h <= g
     IN  groups[last][1]]

\* a table in which the parent label of one group is listed as an alias of
\* another
_OPERATOR_LOOKUP_Chained ==
  [n \in (DOMAIN BuildLookup(OPERATOR_GROUPS)) \cup {"RWE"} |->
     IF n = "RWE" THEN "ECO STOR" ELSE BuildLookup(OPERATOR_GROUPS)[n]]

_OPERATOR_LOOKUP == BuildLookup(OPERATOR_GROUPS)

nb_lookup == BuildLookup(NETZBETREIBER_GROUPS)

\* a table in which the consolidated name of one group is listed as a part of
\* another
_PROJECT_LOOKUP_Nested ==
  [n \in (DOMAIN BuildLookup(PROJECT_GROUPS)) \cup {"Speicher Polt III"} |->
     IF n = "Speicher Polt III" THEN "Speicher GG III"
     ELSE BuildLookup(PROJECT_GROUPS)[n]]

_PROJECT_LOOKUP == BuildLookup(PROJECT_GROUPS)

\* ---------------------------------------------------------------------------
\* Cells
\* ---------------------------------------------------------------------------
\* a missing text cell (NaN in an object column); no table lists it
NaNStr == "<NaN>"

\* dict.get(x): None for a name the lookup does not hold
DictGetOrNone(lookup, x) == IF x \in DOMAIN lookup THEN lookup[x] ELSE NaNStr

\* dict.get(x, x)
DictGet(lookup, x) == IF x \in DOMAIN lookup THEN lookup[x] ELSE x

\* NaN / None / NaT in a numeric, duration or date column
NaN == <<>>

isna(v) == v = NaN

Num(n) == <<n>>

Val(v) == v[1]

\* canonical quantities are held in thousandths; 1.0 MW is Milli
Milli == 1000

\* OUTLIER_RULES, in thousandths of MW, MWh and hours; years as they are
min_power_mw == 1000
max_power_mw == 1000000
min_duration_hours == 250
max_duration_hours == 10000
min_capacity_mwh == 100
min_year == 2010
max_year == 2035

Abs(n) == IF n < 0 THEN -n ELSE n

RECURSIVE GCD(_, _)
GCD(a, b) == IF b = 0 THEN a ELSE GCD(b, a % b)

Inf == <<1, 0>>
NegInf == <<-1, 0>>

\* float division a / b of two finite numbers as pandas (numpy) computes it:
\* x/0 is +inf or -inf, 0/0 is NaN; otherwise the exact quotient, reduced
FloatDiv(a, b) ==
  IF b = 0 THEN (IF a > 0 THEN Inf ELSE IF a < 0 THEN NegInf ELSE NaN)
  ELSE LET g == GCD(Abs(a), Abs(b))
           s == IF b < 0 THEN -1 ELSE 1
       IN  <<(s * a) \div g, (s * b) \div g>>

\* the Series division df[a] / df[b]: NaN when either operand is NaN
SeriesDiv(x, y) == IF isna(x) \/ isna(y) THEN NaN ELSE FloatDiv(Val(x), Val(y))

\* the quotient left as it is
KeepInf(d) == d

\* Series.replace([inf, -inf], None)
ReplaceInf(d) == IF d \in {Inf, NegInf} THEN NaN ELSE d

\* comparisons of a duration cell with a bound given in thousandths of an
\* hour; every comparison with NaN is False
DurGe(d, bound) ==
  /\ ~isna(d)
  /\ IF d[2] = 0 THEN d[1] > 0 ELSE d[1] * Milli >= bound * d[2]

DurLe(d, bound) ==
  /\ ~isna(d)
  /\ IF d[2] = 0 THEN d[1] < 0 ELSE d[1] * Milli <= bound * d[2]

\* comparisons of a numeric cell with a bound; every comparison with NaN is
\* False
NumGe(v, bound) == ~isna(v) /\ Val(v) >= bound

NumLe(v, bound) == ~isna(v) /\ Val(v) <= bound

\* ---------------------------------------------------------------------------
\* Strings
\* ---------------------------------------------------------------------------
\* the printable ASCII characters 32..95 and 97..126 in code-point order
AsciiLow ==
  " !\"#$%&'()*+,-./0123456789:;<=>?@ABCDEFGHIJKLMNOPQRSTUVWXYZ[\\]^_"

AsciiHigh == "abcdefghijklmnopqrstuvwxyz{|}~"

CharAt(s, i) == SubSeq(s, i, i)

\* ord(c) for the printable ASCII characters; every other character of the
\* tables lies above them
OrdMap ==
  [c \in {CharAt(AsciiLow, i) : i \in 1..Len(AsciiLow)}
          \cup {CharAt(AsciiHigh, i) : i \in 1..Len(AsciiHigh)} |->
     IF \E i \in 1..Len(AsciiLow) : CharAt(AsciiLow, i) = c
     THEN 31 + CHOOSE i \in 1..Len(AsciiLow) : CharAt(AsciiLow, i) = c
     ELSE 96 + CHOOSE i \in 1..Len(AsciiHigh) : CharAt(AsciiHigh, i) = c]

Ord(c) == IF c \in DOMAIN OrdMap THEN OrdMap[c] ELSE 255

\* a < b for Python str (lexicographic by code point)
RECURSIVE StrLessFrom(_, _, _)
StrLessFrom(a, b, i) ==
  IF i > Len(b) THEN FALSE
  ELSE IF i > Len(a) THEN TRUE
  ELSE IF CharAt(a, i) = CharAt(b, i) THEN StrLessFrom(a, b, i + 1)
  ELSE Ord(CharAt(a, i)) < Ord(CharAt(b, i))

StrLess(a, b) == StrLessFrom(a, b, 1)

\* sorted(list of str): insertion into an ascending list, stable
RECURSIVE InsertSorted(_, _)
InsertSorted(s, x) ==
  IF s = <<>> THEN <<x>>
  ELSE IF StrLess(x, Head(s)) THEN <<x>> \o s
  ELSE <<Head(s)>> \o InsertSorted(Tail(s), x)

\* the list as it is given
unsorted(s) == s

RECURSIVE sorted(_)
sorted(s) == IF s = <<>> THEN <<>> ELSE InsertSorted(sorted(SubSeq(s, 1, Len(s) - 1)), s[Len(s)])

\* sep.join(list of str)
RECURSIVE join(_, _)
join(sep, s) ==
  IF s = <<>> THEN ""
  ELSE IF Len(s) = 1 THEN s[1]
  ELSE s[1] \o sep \o join(sep, Tail(s))

Digits == "0123456789"

IsDigit(c) == \E i \in 1..Len(Digits) : CharAt(Digits, i) = c

DigitVal(c) == (CHOOSE i \in 1..Len(Digits) : CharAt(Digits, i) = c) - 1

\* the characters str.strip() and the regex class \s remove
Whitespace == {" ", "\t", "\n", "\r", "\f"}

RECURSIVE lstrip(_)
lstrip(s) ==
  IF Len(s) > 0 /\ CharAt(s, 1) \in Whitespace THEN lstrip(SubSeq(s, 2, Len(s)))
  ELSE s

RECURSIVE rstrip(_)
rstrip(s) ==
  IF Len(s) > 0 /\ CharAt(s, Len(s)) \in Whitespace
  THEN rstrip(SubSeq(s, 1, Len(s) - 1))
  ELSE s

\* str.strip()
strip(s) == lstrip(rstrip(s))

UpperChars == "ABCDEFGHIJKLMNOPQRSTUVWXYZÄÖÜ"
LowerChars == "abcdefghijklmnopqrstuvwxyzäöü"

LowerMap ==
  [c \in {CharAt(UpperChars, i) : i \in 1..Len(UpperChars)} |->
     CharAt(LowerChars, CHOOSE i \in 1..Len(UpperChars) : CharAt(UpperChars, i) = c)]

LowerChar(c) == IF c \in DOMAIN LowerMap THEN LowerMap[c] ELSE c

\* str.lower()
RECURSIVE lower(_)
lower(s) ==
  IF Len(s) = 0 THEN ""
  ELSE LowerChar(CharAt(s, 1)) \o lower(SubSeq(s, 2, Len(s)))

\* sub in s
Contains(s, sub) ==
  \E i \in 1..(Len(s) - Len(sub) + 1) : SubSeq(s, i, i + Len(sub) - 1) = sub

\* str(x) of a text cell; str(nan) is 'nan'
str(x) == IF x = NaNStr THEN "nan" ELSE x

\* ---------------------------------------------------------------------------
\* Tables
\* ---------------------------------------------------------------------------
\* pd.DataFrame()
EmptyFrame == [cols |-> {}, dup |-> {}, rows |-> <<>>]

\* len(df)
len(T) == Len(T.rows)

\* row with column c set to v
RowSet(r, c, v) == [k \in (DOMAIN r) \cup {c} |-> IF k = c THEN v ELSE r[k]]

\* df[c] = <series>, the series given row by row as F(row)
SetCol(T, c, F(_)) ==
  [T EXCEPT !.cols = @ \cup {c},
            !.rows = [i \in DOMAIN T.rows |-> RowSet(T.rows[i], c, F(T.rows[i]))]]

\* df[mask], the mask given row by row as Keep(row)
SelectRows(rows, Keep(_)) ==
  LET kept == {i \in DOMAIN rows : Keep(rows[i])}
  IN  [k \in 1..Cardinality(kept) |->
         rows[CHOOSE i \in kept : Cardinality({j \in kept : j <= i}) = k]]

Filter(T, Keep(_)) == [T EXCEPT !.rows = SelectRows(T.rows, Keep)]

\* df.rename(columns={old: new}); a second column of the same name makes the
\* name ambiguous (dup) and the table keeps the column that carried it first
Rename(T, old, new) ==
  IF old \notin T.cols \/ old = new THEN T
  ELSE IF new \in T.cols
  THEN [cols |-> T.cols \ {old},
        dup  |-> (T.dup \ {old}) \cup {new},
        rows |-> [i \in DOMAIN T.rows |->
                    [k \in (DOMAIN T.rows[i]) \ {old} |-> T.rows[i][k]]]]
  ELSE [cols |-> (T.cols \ {old}) \cup {new},
        dup  |-> IF old \in T.dup THEN (T.dup \ {old}) \cup {new} ELSE T.dup,
        rows |-> [i \in DOMAIN T.rows |->
                    [k \in ((DOMAIN T.rows[i]) \ {old}) \cup {new} |->
                       IF k = new THEN T.rows[i][old] ELSE T.rows[i][k]]]]

\* ---------------------------------------------------------------------------
\* Schema normalisation (load_and_process_data up to the status column)
\* ---------------------------------------------------------------------------
column_mapping ==
  << <<"Nettonennleistung der Einheit", "Nettonennleistung_kW">>,
     <<"Netto-Nennleistung der Einheit", "Nettonennleistung_kW">>,
     <<"Nutzbare Speicherkapazität in kWh", "Speicherkapazitaet_kWh">>,
     <<"Nutzbare Speicherkapazität der Einheit", "Speicherkapazitaet_kWh">>,
     <<"Nutzbare Speicherkapazität", "Speicherkapazitaet_kWh">>,
     <<"Betriebs-Status", "Betriebsstatus">>,
     <<"Betriebsstatus", "Betriebsstatus">>,
     <<"Inbetriebnahmedatum der Einheit", "Inbetriebnahmedatum">>,
     <<"Inbetriebnahmedatum", "Inbetriebnahmedatum">>,
     <<"Datum der geplanten Inbetriebnahme", "Geplantes_Inbetriebnahmedatum">>,
     <<"Geplantes Inbetriebnahmedatum", "Geplantes_Inbetriebnahmedatum">>,
     <<"Name des Anlagenbetreibers (nur Org.)", "Betreiber">>,
     <<"Anlagenbetreiber", "Betreiber">>,
     <<"Bundesland", "Bundesland">>,
     <<"Standort: Bundesland", "Bundesland">>,
     <<"MaStR-Nr. der Einheit", "MaStR_Nr">>,
     <<"Anzeige-Name der Einheit", "Anlagename">>,
     <<"Anzeigename der Einheit", "Anlagename">>,
     <<"Name des Anschluss-Netzbetreibers", "Netzbetreiber">> >>

\* df.columns = df.columns.str.strip()
RECURSIVE StripColumns(_, _)
StripColumns(T, todo) ==
  IF todo = {} THEN T
  ELSE LET c == CHOOSE c \in todo : TRUE
       IN  StripColumns(Rename(T, c, strip(c)), todo \ {c})

\* for old_name, new_name in column_mapping.items(): rename if present
RECURSIVE RenameColumns(_, _)
RenameColumns(T, i) ==
  IF i > Len(column_mapping) THEN T
  ELSE RenameColumns(Rename(T, column_mapping[i][1], column_mapping[i][2]), i + 1)

\* pd.to_numeric(cell, errors='coerce')
to_numeric(cell) == IF cell[1] = "num" THEN Num(cell[2]) ELSE NaN

\* <series> / 1000, the result held in thousandths
DivThousand(v) == IF isna(v) THEN NaN ELSE Num((Val(v) * Milli) \div 1000)

DaysInMonth(m, y) ==
  IF m \in {4, 6, 9, 11} THEN 30
  ELSE IF m = 2 THEN (IF y % 4 = 0 /\ (y % 100 # 0 \/ y % 400 = 0) THEN 29 ELSE 28)
  ELSE 31

TwoDigits(s, i) == 10 * DigitVal(CharAt(s, i)) + DigitVal(CharAt(s, i + 1))

\* a parser that takes any dd.mm.yyyy digits for a date
to_datetime_AnyDigits(cell) ==
  IF cell = NaNStr THEN NaN
  ELSE IF /\ Len(cell) = 10
          /\ CharAt(cell, 3) = "." /\ CharAt(cell, 6) = "."
          /\ \A i \in {1, 2, 4, 5, 7, 8, 9, 10} : IsDigit(CharAt(cell, i))
  THEN <<100 * TwoDigits(cell, 7) + TwoDigits(cell, 9), TwoDigits(cell, 4),
         TwoDigits(cell, 1)>>
  ELSE NaN

\* pd.to_datetime(cell, dayfirst=True, errors='coerce') on the registry's
\* dd.mm.yyyy text: <<year, month, day>>, NaT for anything else
to_datetime(cell) ==
  IF cell = NaNStr THEN NaN
  ELSE IF /\ Len(cell) = 10
          /\ CharAt(cell, 3) = "." /\ CharAt(cell, 6) = "."
          /\ \A i \in {1, 2, 4, 5, 7, 8, 9, 10} : IsDigit(CharAt(cell, i))
  THEN LET d == TwoDigits(cell, 1)
           m == TwoDigits(cell, 4)
           y == 100 * TwoDigits(cell, 7) + TwoDigits(cell, 9)
       IN  IF m \in 1..12 /\ d >= 1 /\ d <= DaysInMonth(m, y) THEN <<y, m, d>>
           ELSE NaN
  ELSE NaN

\* the month in place of the year
dt_month(d) == IF isna(d) THEN NaN ELSE Num(d[2])

\* .dt.year
dt_year(d) == IF isna(d) THEN NaN ELSE Num(d[1])

\* a classification in which the operating indicator wins over the planned one
StandardizeStatusOperatingFirst(x) ==
  LET low == lower(str(x))
  IN  IF Contains(low, "betrieb") THEN "In Betrieb"
      ELSE IF Contains(low, "planung") THEN "In Planung"
      ELSE str(x)

\* the status lambda of load_and_process_data
StandardizeStatus(x) ==
  LET low == lower(str(x))
  IN  IF Contains(low, "betrieb") /\ ~Contains(low, "planung") THEN "In Betrieb"
      ELSE IF Contains(low, "planung") THEN "In Planung"
      ELSE str(x)

DateCols == <<"Inbetriebnahmedatum", "Geplantes_Inbetriebnahmedatum">>

ParseDates(T) ==
  LET P1(r) == to_datetime(r["Inbetriebnahmedatum"])
      P2(r) == to_datetime(r["Geplantes_Inbetriebnahmedatum"])
      T1 == IF DateCols[1] \in T.cols THEN SetCol(T, DateCols[1], P1) ELSE T
  IN  IF DateCols[2] \in T1.cols THEN SetCol(T1, DateCols[2], P2) ELSE T1

\* the columns normalisation reads with df[...]; a read of an ambiguous
\* column yields a frame instead of a series and the conversion raises
NormalizeReads ==
  {"Nettonennleistung_kW", "Speicherkapazitaet_kWh", "Inbetriebnahmedatum",
   "Geplantes_Inbetriebnahmedatum", "Betriebsstatus"}

Renamed(T) == RenameColumns(StripColumns(T, T.cols), 1)

NormalizeRaises(T) == Renamed(T).dup \cap NormalizeReads # {}

\* load_and_process_data, lines 648-708
Normalize(T) ==
  LET MW(r)  == DivThousand(to_numeric(r["Nettonennleistung_kW"]))
      MWh(r) == DivThousand(to_numeric(r["Speicherkapazitaet_kWh"]))
      Dur(r) == ReplaceInf(SeriesDiv(r["Kapazitaet_MWh"], r["Leistung_MW"]))
      T0 == Renamed(T)
      T1 == IF "Nettonennleistung_kW" \in T0.cols THEN SetCol(T0, "Leistung_MW", MW) ELSE T0
      T2 == IF "Speicherkapazitaet_kWh" \in T1.cols THEN SetCol(T1, "Kapazitaet_MWh", MWh) ELSE T1
      T3 == IF "Leistung_MW" \in T2.cols /\ "Kapazitaet_MWh" \in T2.cols
            THEN SetCol(T2, "Dauer_Stunden", Dur) ELSE T2
      T4 == ParseDates(T3)
      Get(r) == IF "Inbetriebnahmedatum" \in T4.cols THEN r["Inbetriebnahmedatum"] ELSE NaN
      T5 == SetCol(T4, "Datum", Get)
      Fill(r) == IF isna(r["Datum"]) THEN r["Geplantes_Inbetriebnahmedatum"] ELSE r["Datum"]
      T6 == IF "Geplantes_Inbetriebnahmedatum" \in T5.cols THEN SetCol(T5, "Datum", Fill) ELSE T5
      Year(r) == dt_year(r["Datum"])
      T7 == SetCol(T6, "Jahr", Year)
      St(r) == StandardizeStatus(r["Betriebsstatus"])
  IN  IF "Betriebsstatus" \in T7.cols THEN SetCol(T7, "Status", St) ELSE T7

\* ---------------------------------------------------------------------------
\* Outlier filter
\* ---------------------------------------------------------------------------
\* a power rule that checks the upper bound only
PowerMaskUpperOnly(r) == NumLe(r["Leistung_MW"], max_power_mw)

PowerMask(r) ==
  NumGe(r["Leistung_MW"], min_power_mw) /\ NumLe(r["Leistung_MW"], max_power_mw)

CapacityMask(r) == NumGe(r["Kapazitaet_MWh"], min_capacity_mwh)

DurationMask(r) ==
  DurGe(r["Dauer_Stunden"], min_duration_hours)
    /\ DurLe(r["Dauer_Stunden"], max_duration_hours)

\* a year rule that a null year does not pass
YearMaskNoNull(r) == NumGe(r["Jahr"], min_year) /\ NumLe(r["Jahr"], max_year)

YearMask(r) ==
  (NumGe(r["Jahr"], min_year) /\ NumLe(r["Jahr"], max_year)) \/ isna(r["Jahr"])

\* a filter without the power rule
FilterPowerNone(T) == T

FilterPower(T) == IF "Leistung_MW" \in T.cols THEN Filter(T, PowerMask) ELSE T

FilterCapacity(T) == IF "Kapazitaet_MWh" \in T.cols THEN Filter(T, CapacityMask) ELSE T

FilterDuration(T) == IF "Dauer_Stunden" \in T.cols THEN Filter(T, DurationMask) ELSE T

FilterYear(T) == IF "Jahr" \in T.cols THEN Filter(T, YearMask) ELSE T

apply_outlier_filters(T) == FilterYear(FilterDuration(FilterCapacity(FilterPower(T))))

\* ---------------------------------------------------------------------------
\* Owner and grid-operator consolidation
\* ---------------------------------------------------------------------------
\* a consolidator that keeps the shadow copy and leaves the owner as it is
consolidate_operator_names_OriginalOnly(T) ==
  IF "Betreiber" \notin T.cols THEN T
  ELSE LET Orig(r) == r["Betreiber"]
       IN  SetCol(T, "Betreiber_Original", Orig)

\* df['Betreiber_Original'] = df['Betreiber']: with two columns of that name
\* the right-hand side is a frame and the assignment raises ValueError
OperatorRaises(T) == "Betreiber" \in T.dup

consolidate_operator_names(T) ==
  IF "Betreiber" \notin T.cols THEN T
  ELSE LET Orig(r) == r["Betreiber"]
           Map(r)  == DictGet(_OPERATOR_LOOKUP, r["Betreiber_Original"])
           T1 == SetCol(T, "Betreiber_Original", Orig)
       IN  SetCol(T1, "Betreiber", Map)

\* number of digits that end at position j of s
RECURSIVE DigitRun(_, _)
DigitRun(s, j) ==
  IF j >= 1 /\ IsDigit(CharAt(s, j)) THEN 1 + DigitRun(s, j - 1) ELSE 0

\* the pattern with \d* in place of \d+
SubSuffixOptionalDigits(s) ==
  LET t == rstrip(s)
      n == Len(t)
      k == DigitRun(t, n - 1)
  IN  IF /\ n >= 5
         /\ CharAt(t, n) = ")"
         /\ n - 1 - k >= 4
         /\ SubSeq(t, n - k - 4, n - k - 1) = "(SNB"
      THEN rstrip(SubSeq(t, 1, n - k - 5))
      ELSE s

\* re.sub(r'\s*\(SNB\d+\)\s*$', '', s): the pattern can match only once, at
\* the end, and the match starts at the whitespace before the parenthesis
SubSuffix(s) ==
  LET t == rstrip(s)
      n == Len(t)
      k == DigitRun(t, n - 1)
  IN  IF /\ n >= 6
         /\ CharAt(t, n) = ")"
         /\ k >= 1
         /\ n - 1 - k >= 4
         /\ SubSeq(t, n - k - 4, n - k - 1) = "(SNB"
      THEN rstrip(SubSeq(t, 1, n - k - 5))
      ELSE s

\* a pattern that ends in "\)$": whitespace after the suffix keeps it
clean_netzbetreiber_name_NoTrailingSpace(name) ==
  IF name = NaNStr THEN name
  ELSE LET s == str(name)
           n == Len(s)
           k == DigitRun(s, n - 1)
       IN  IF /\ n >= 6
              /\ CharAt(s, n) = ")"
              /\ k >= 1
              /\ n - 1 - k >= 4
              /\ SubSeq(s, n - k - 4, n - k - 1) = "(SNB"
           THEN strip(SubSeq(s, 1, n - k - 5))
           ELSE strip(s)

clean_netzbetreiber_name(name) ==
  IF name = NaNStr THEN name ELSE strip(SubSuffix(str(name)))

\* a consolidator that resolves the raw name and cleans the result
consolidate_netzbetreiber_names_ResolveFirst(T) ==
  IF "Netzbetreiber" \notin T.cols THEN T
  ELSE LET Orig(r)  == r["Netzbetreiber"]
           Map(r)   == DictGet(nb_lookup, r["Netzbetreiber_Original"])
           Clean(r) == clean_netzbetreiber_name(r["Netzbetreiber"])
           T1 == SetCol(T, "Netzbetreiber_Original", Orig)
           T2 == SetCol(T1, "Netzbetreiber", Map)
       IN  SetCol(T2, "Netzbetreiber", Clean)

\* df['Netzbetreiber_Original'] = df['Netzbetreiber'], as for the owner
NetzbetreiberRaises(T) == "Netzbetreiber" \in T.dup

consolidate_netzbetreiber_names(T) ==
  IF "Netzbetreiber" \notin T.cols THEN T
  ELSE LET Orig(r)  == r["Netzbetreiber"]
           Clean(r) == clean_netzbetreiber_name(r["Netzbetreiber_Original"])
           Map(r)   == DictGet(nb_lookup, r["Netzbetreiber"])
           T1 == SetCol(T, "Netzbetreiber_Original", Orig)
           T2 == SetCol(T1, "Netzbetreiber", Clean)
       IN  SetCol(T2, "Netzbetreiber", Map)

\* ---------------------------------------------------------------------------
\* Multi-part project aggregation
\* ---------------------------------------------------------------------------
\* df['Anlagename'].isin(set(_PROJECT_LOOKUP.keys()))
mask_to_consolidate(r) == r["Anlagename"] \in DOMAIN _PROJECT_LOOKUP

NotToConsolidate(r) == ~mask_to_consolidate(r)

\* a sum that leaves out the first row
RECURSIVE SumColSkipFirst(_, _)
SumColSkipFirst(rows, c) ==
  IF Len(rows) <= 1 THEN 0
  ELSE (IF isna(rows[Len(rows)][c]) THEN 0 ELSE Val(rows[Len(rows)][c]))
       + SumColSkipFirst(SubSeq(rows, 1, Len(rows) - 1), c)

\* Series.sum() of a numeric column: NaN cells are skipped, an empty sum is 0
RECURSIVE SumCol(_, _)
SumCol(rows, c) ==
  IF rows = <<>> THEN 0
  ELSE (IF isna(Head(rows)[c]) THEN 0 ELSE Val(Head(rows)[c])) + SumCol(Tail(rows), c)

\* the value of the first row in place of the minimum
MinColFirst(rows, c) == rows[1][c]

\* Series.min() of a numeric column: NaN cells are skipped, NaN if none is left
MinCol(rows, c) ==
  LET vals == {Val(rows[i][c]) : i \in {j \in DOMAIN rows : ~isna(rows[j][c])}}
  IN  IF vals = {} THEN NaN ELSE Num(CHOOSE m \in vals : \A v \in vals : m <= v)

\* the quotient taken the other way round
new_duration_Inverted(total_mwh, total_mw) ==
  IF total_mw > 0 THEN FloatDiv(total_mw, total_mwh) ELSE NaN

\* total_mwh / total_mw if total_mw > 0 else None
new_duration(total_mwh, total_mw) ==
  IF total_mw > 0 THEN FloatDiv(total_mwh, total_mw) ELSE NaN

RECURSIVE Names(_)
Names(rows) == IF rows = <<>> THEN <<>> ELSE <<Head(rows)["Anlagename"]>> \o Names(Tail(rows))

\* a merged row built on the last row of the group
ConsolidatedRowLastTemplate(consolidated_name, group_rows, cols) ==
  LET total_mw  == SumCol(group_rows, "Leistung_MW")
      total_mwh == SumCol(group_rows, "Kapazitaet_MWh")
      original_parts == join("; ", sorted(Names(group_rows)))
      r0 == group_rows[Len(group_rows)]
      r1 == RowSet(r0, "Anlagename", consolidated_name)
      r2 == RowSet(r1, "Leistung_MW", Num(total_mw))
      r3 == RowSet(r2, "Kapazitaet_MWh", Num(total_mwh))
      r4 == RowSet(r3, "Dauer_Stunden", new_duration(total_mwh, total_mw))
      r5 == RowSet(r4, "Anlagename_Original_Parts", original_parts)
  IN  IF "Jahr" \in cols THEN RowSet(r5, "Jahr", MinCol(group_rows, "Jahr")) ELSE r5

\* the body of the groupby loop: the merged row of one group
ConsolidatedRow(consolidated_name, group_rows, cols) ==
  LET total_mw  == SumCol(group_rows, "Leistung_MW")
      total_mwh == SumCol(group_rows, "Kapazitaet_MWh")
      original_parts == join("; ", sorted(Names(group_rows)))
      r0 == group_rows[1]
      r1 == RowSet(r0, "Anlagename", consolidated_name)
      r2 == RowSet(r1, "Leistung_MW", Num(total_mw))
      r3 == RowSet(r2, "Kapazitaet_MWh", Num(total_mwh))
      r4 == RowSet(r3, "Dauer_Stunden", new_duration(total_mwh, total_mw))
      r5 == RowSet(r4, "Anlagename_Original_Parts", original_parts)
  IN  IF "Jahr" \in cols THEN RowSet(r5, "Jahr", MinCol(group_rows, "Jahr")) ELSE r5

\* grouping by the part's own name
GroupKeyByPart(r) == r["Anlagename"]

\* the key of df_to_consolidate.groupby('Consolidated_Name')
GroupKey(r) == r["Consolidated_Name"]

\* the columns that hold text; a cell that concat has to invent in one of them
\* is a missing text cell, in any other column a NaN
TextCols ==
  {"Anlagename", "Anlagename_Original_Parts", "Consolidated_Name", "Betreiber",
   "Betreiber_Original", "Netzbetreiber", "Netzbetreiber_Original", "Status",
   "Betriebsstatus", "Bundesland", "MaStR_Nr"}

\* pd.concat: every row is extended to the union of the columns
Pad(r, cols) ==
  [c \in cols |-> IF c \in DOMAIN r THEN r[c]
                  ELSE IF c \in TextCols THEN NaNStr ELSE NaN]

\* group_df['Leistung_MW'] and group_df['Kapazitaet_MWh'] are read without a
\* guard: KeyError when a part is present and one of the columns is not.
\* With two columns named Anlagename the mask is a frame and "not mask.any()"
\* raises ValueError; with two columns of any one name the template rows have
\* a label twice and pd.DataFrame(consolidated_rows) raises InvalidIndexError
ConsolidateRaises(T) ==
  /\ "Anlagename" \in T.cols
  /\ \/ "Anlagename" \in T.dup
     \/ /\ \E i \in DOMAIN T.rows : mask_to_consolidate(T.rows[i])
        /\ \/ ~({"Leistung_MW", "Kapazitaet_MWh"} \subseteq T.cols)
           \/ T.dup # {}

consolidate_multi_part_projects(T) ==
  IF "Anlagename" \notin T.cols THEN T
  ELSE IF ~\E i \in DOMAIN T.rows : mask_to_consolidate(T.rows[i]) THEN T
  ELSE
    LET Own(r)  == r["Anlagename"]
        Cons(r) == _PROJECT_LOOKUP[r["Anlagename"]]
        df_to_consolidate == SetCol(Filter(T, mask_to_consolidate), "Consolidated_Name", Cons)
        df_keep == SetCol(Filter(T, NotToConsolidate), "Anlagename_Original_Parts", Own)
        keys == {GroupKey(df_to_consolidate.rows[i]) :
                   i \in DOMAIN df_to_consolidate.rows}
        \* groupby yields the groups in ascending key order
        order == sorted(CHOOSE s \in [1..Cardinality(keys) -> keys] : Range(s) = keys)
        Group(k) ==
          LET InGroup(r) == GroupKey(r) = k
          IN  SelectRows(df_to_consolidate.rows, InGroup)
        consolidated_rows ==
          [g \in DOMAIN order |->
             ConsolidatedRow(order[g], Group(order[g]), df_to_consolidate.cols)]
        allcols == df_keep.cols \cup df_to_consolidate.cols
                     \cup {"Dauer_Stunden", "Anlagename_Original_Parts"}
        all == df_keep.rows \o consolidated_rows
    IN  [cols |-> allcols,
         dup  |-> T.dup,
         rows |-> [i \in DOMAIN all |-> Pad(all[i], allcols)]]

\* ---------------------------------------------------------------------------
\* Module-level summary statistics
\* ---------------------------------------------------------------------------
\* len(df[df['Status'] == status])
CountStatus(T, status) ==
  Cardinality({i \in DOMAIN T.rows : T.rows[i]["Status"] = status})

\* df[df['Status'] == status][c].sum()
SumStatus(T, status, c) ==
  LET Is(r) == r["Status"] = status
  IN  SumCol(SelectRows(T.rows, Is), c)

\* the columns the statistics read with df[...]
StatsReads == {"Status", "Leistung_MW", "Kapazitaet_MWh", "Dauer_Stunden"}

SummaryStatistics(T) ==
  [total_operational_mw  |-> SumStatus(T, "In Betrieb", "Leistung_MW"),
   total_planned_mw      |-> SumStatus(T, "In Planung", "Leistung_MW"),
   total_operational_mwh |-> SumStatus(T, "In Betrieb", "Kapazitaet_MWh"),
   total_planned_mwh     |-> SumStatus(T, "In Planung", "Kapazitaet_MWh"),
   count_operational     |-> CountStatus(T, "In Betrieb"),
   count_planned         |-> CountStatus(T, "In Planung")]

NoStatistics ==
  [total_operational_mw |-> 0, total_planned_mw |-> 0,
   total_operational_mwh |-> 0, total_planned_mwh |-> 0,
   count_operational |-> 0, count_planned |-> 0]

\* ---------------------------------------------------------------------------
\* Diagnostics printed by the stages
\* ---------------------------------------------------------------------------
\* (df[a] != df[b]).sum() on text columns; NaN != NaN counts
CountChanged(T, a, b) ==
  Cardinality({i \in DOMAIN T.rows :
                 T.rows[i][a] # T.rows[i][b] \/ T.rows[i][a] = NaNStr})

\* removed_reasons: one entry per rule that removed a row, in the order of
\* the rules; a rule counts (~mask).sum() on the table the rules before it
\* left
removed_reasons(T) ==
  LET T1 == FilterPower(T)
      T2 == FilterCapacity(T1)
      T3 == FilterDuration(T2)
      T4 == FilterYear(T3)
      Reason(text, removed) ==
        IF removed > 0 THEN <<"  - " \o text \o ToString(removed)>> ELSE <<>>
  IN  Reason("Power out of range (1.0-1000 MW): ", len(T) - len(T1))
        \o Reason("Capacity below 0.1 MWh: ", len(T1) - len(T2))
        \o Reason("Duration out of range (0.25-10h): ", len(T2) - len(T3))
        \o Reason("Year out of range (2010-2035): ", len(T3) - len(T4))

FilterPrints(T) ==
  LET total_removed == len(T) - len(apply_outlier_filters(T))
  IN  IF total_removed > 0
      THEN <<"Outlier filtering removed " \o ToString(total_removed) \o " records:">>
             \o removed_reasons(T)
      ELSE <<>>

OperatorPrints(T) ==
  IF "Betreiber" \in T.cols
     /\ CountChanged(consolidate_operator_names(T), "Betreiber", "Betreiber_Original") > 0
  THEN <<"Operator consolidation">> ELSE <<>>

NetzbetreiberPrints(T) ==
  IF "Netzbetreiber" \in T.cols
     /\ LET R == consolidate_netzbetreiber_names(T)
        IN  \E i \in DOMAIN R.rows :
              \/ R.rows[i]["Netzbetreiber"] = NaNStr
              \/ R.rows[i]["Netzbetreiber"]
                   # clean_netzbetreiber_name(R.rows[i]["Netzbetreiber_Original"])
  THEN <<"Netzbetreiber consolidation">> ELSE <<>>

ProjectPrints(T) ==
  IF "Anlagename" \in T.cols /\ \E i \in DOMAIN T.rows : mask_to_consolidate(T.rows[i])
  THEN <<"Project consolidation">> ELSE <<>>

\* ---------------------------------------------------------------------------
\* State
\* ---------------------------------------------------------------------------
VARIABLES
  pc,      \* position of the program
  files,   \* the csv candidates of get_data: "missing", "unreadable" or a table
  path,    \* index of the candidate get_data is at
  df,      \* the table being built, then the module-level df
  input,   \* the table the run (or the function called) started from
  stdout,  \* what has been printed
  exc,     \* the exception that ended the program, "" if none
  stats    \* the module-level summary statistics

vars == <<pc, files, path, df, input, stdout, exc, stats>>

\* possible_paths of get_data
NumPaths == 3

\* ---------------------------------------------------------------------------
\* Inputs
\* ---------------------------------------------------------------------------
\* most rows a table is given
MaxRows == 2

\* most rows a table handed to the outlier filter alone is given
MaxFilterRows == 2

H_kW      == "Nettonennleistung der Einheit"
H_kWh     == "Nutzbare Speicherkapazität"
H_Status  == "Betriebs-Status"
H_Datum   == "Inbetriebnahmedatum der Einheit"
H_Geplant == "Datum der geplanten Inbetriebnahme"
H_Owner   == "Name des Anlagenbetreibers (nur Org.)"
H_Land    == "Bundesland"
H_Name    == "Anzeige-Name der Einheit"
H_Netz    == "Name des Anschluss-Netzbetreibers"

RawHeaders ==
  {H_kW, H_kWh, H_Status, H_Datum, H_Geplant, H_Owner, H_Land, H_Name, H_Netz}

Part1 == "Speicher Polt III 4.600 kW(Teil 1)"
Part2 == "Speicher Polt III  (Teil 2)"
OtherPart == "Speicher GG III (Teil 2)"
Merged == "Speicher Polt III"
Single == "Batteriespeicher Nord"

\* (kW, kWh) cells of a raw row
RawPowerCapacity ==
  { <<<<"num", 600>>, <<"num", 1200>>>>,
    <<<<"num", 10000>>, <<"num", 40000>>>>,
    <<<<"num", 600000>>, <<"num", 1200000>>>>,
    <<<<"num", 0>>, <<"num", 5000>>>>,
    <<<<"txt", "n/a">>, <<"num", 40000>>>> }

\* (status, commissioning date, planned date, owner, grid operator, state)
RawProfiles ==
  { <<"In Betrieb", "15.03.2020", NaNStr, "RWE Generation SE",
      "Westnetz GmbH (SNB00000123)", "Bayern">>,
    <<"In Planung", NaNStr, "01.06.2024", "Foo GmbH", NaNStr, "Hessen">> }

RawRow(name, pc2, prof) ==
  [h \in RawHeaders |->
     CASE h = H_kW      -> pc2[1]
       [] h = H_kWh     -> pc2[2]
       [] h = H_Status  -> prof[1]
       [] h = H_Datum   -> prof[2]
       [] h = H_Geplant -> prof[3]
       [] h = H_Owner   -> prof[4]
       [] h = H_Netz    -> prof[5]
       [] h = H_Land    -> prof[6]
       [] OTHER         -> name]

RawRows ==
  {RawRow(n, p, q) : n \in {Part1, Part2, Single}, p \in RawPowerCapacity, q \in RawProfiles}

SeqsUpTo(S, n) == UNION {[1..k -> S] : k \in 0..n}

\* the table read from a csv file with the given header and rows
Csv(H, rows) ==
  [cols |-> H, dup |-> {},
   rows |-> [i \in DOMAIN rows |-> [h \in H |-> rows[i][h]]]]

Missing == [kind |-> "missing", table |-> EmptyFrame]
Unreadable == [kind |-> "unreadable", table |-> EmptyFrame]
File(T) == [kind |-> "csv", table |-> T]

SmallRow == RawRow(Single, <<<<"num", 10000>>, <<"num", 40000>>>>,
                   <<"In Planung", NaNStr, "01.06.2024", "Foo GmbH", NaNStr, "Hessen">>)

\* the file systems get_data starts in: the first candidate holds any table,
\* or the candidates are missing, unreadable or header-only in some order
FileSystems ==
  {<<File(Csv(RawHeaders, rows)), Missing, Missing>> : rows \in SeqsUpTo(RawRows, MaxRows)}
  \cup {<<a, b, c>> : a \in {Missing, Unreadable},
                      b \in {Missing, File(Csv(RawHeaders, <<>>))},
                      c \in {Missing, Unreadable, File(Csv(RawHeaders, <<SmallRow>>))}}

\* file systems whose first candidate lacks any set of the raw columns
ColumnRows ==
  { <<>>,
    <<RawRow(Part1, <<<<"num", 10000>>, <<"num", 40000>>>>,
             <<"In Betrieb", "15.03.2020", NaNStr, "RWE Generation SE",
               "Westnetz GmbH (SNB00000123)", "Bayern">>)>>,
    <<SmallRow>>,
    <<SmallRow,
      RawRow(Part2, <<<<"num", 5000>>, <<"num", 10000>>>>,
             <<"In Betrieb", "15.03.2020", NaNStr, "RWE Generation SE",
               "Westnetz GmbH (SNB00000123)", "Bayern">>)>> }

ColumnFileSystems ==
  {<<File(Csv(H, rows)), Missing, Missing>> :
     H \in SUBSET RawHeaders, rows \in (ColumnRows \ {<<>>})}

\* ---------------------------------------------------------------------------
\* get_data, load_and_process_data and the module level
\* ---------------------------------------------------------------------------
Start(fs) ==
  /\ pc = "get_data"
  /\ files = fs
  /\ path = 1
  /\ df = EmptyFrame
  /\ input = EmptyFrame
  /\ stdout = <<>>
  /\ exc = ""
  /\ stats = NoStatistics

Init == \E fs \in FileSystems : Start(fs)

InitColumns == \E fs \in ColumnFileSystems : Start(fs)

\* except Exception as e: print(...); continue
Caught ==
  /\ pc' = "get_data"
  /\ path' = path + 1
  /\ df' = EmptyFrame
  /\ stdout' = Append(stdout, "Error reading")
  /\ UNCHANGED <<files, input, exc, stats>>

\* one iteration of the loop over possible_paths, up to the call of
\* load_and_process_data and its read_csv
TryPath ==
  /\ pc = "get_data"
  /\ path <= NumPaths
  /\ LET f == files[path]
     IN  IF f.kind = "missing"
         THEN /\ path' = path + 1
              /\ UNCHANGED <<pc, df, input, stdout>>
         ELSE IF f.kind = "unreadable"
         THEN /\ path' = path + 1
              /\ stdout' = Append(stdout, "Error reading")
              /\ UNCHANGED <<pc, df, input>>
         ELSE IF len(f.table) > 0
         THEN /\ pc' = "read"
              /\ df' = f.table
              /\ input' = f.table
              /\ stdout' = Append(stdout, "Loading data from")
              /\ UNCHANGED path
         ELSE /\ path' = path + 1
              /\ UNCHANGED <<pc, df, input, stdout>>
  /\ UNCHANGED <<files, exc, stats>>

\* the loop ran out of candidates
NoValidCsv ==
  /\ pc = "get_data"
  /\ path > NumPaths
  /\ pc' = "returned"
  /\ df' = EmptyFrame
  /\ stdout' = Append(stdout, "No valid CSV found.")
  /\ UNCHANGED <<files, path, input, exc, stats>>

NormalizeStep ==
  /\ pc = "read"
  /\ IF NormalizeRaises(df) THEN Caught
     ELSE /\ pc' = "normalized"
          /\ df' = Normalize(df)
          /\ UNCHANGED <<files, path, input, stdout, exc, stats>>

\* a pipeline that goes on without applying the outlier filter
FilterStepSkipped ==
  /\ pc = "normalized"
  /\ pc' = "filtered"
  /\ UNCHANGED <<df, files, path, input, stdout, exc, stats>>

FilterStep ==
  /\ pc = "normalized"
  /\ pc' = "filtered"
  /\ df' = apply_outlier_filters(df)
  /\ stdout' = stdout \o FilterPrints(df)
  /\ UNCHANGED <<files, path, input, exc, stats>>

OperatorStep ==
  /\ pc = "filtered"
  /\ IF OperatorRaises(df) THEN Caught
     ELSE /\ pc' = "operators"
          /\ df' = consolidate_operator_names(df)
          /\ stdout' = stdout \o OperatorPrints(df)
          /\ UNCHANGED <<files, path, input, exc, stats>>

NetzbetreiberStep ==
  /\ pc = "operators"
  /\ IF NetzbetreiberRaises(df) THEN Caught
     ELSE /\ pc' = "netzbetreiber"
          /\ df' = consolidate_netzbetreiber_names(df)
          /\ stdout' = stdout \o NetzbetreiberPrints(df)
          /\ UNCHANGED <<files, path, input, exc, stats>>

\* consolidate_multi_part_projects, then the return to get_data and from there
ProjectStep ==
  /\ pc = "netzbetreiber"
  /\ IF ConsolidateRaises(df) THEN Caught
     ELSE /\ pc' = "returned"
          /\ df' = consolidate_multi_part_projects(df)
          /\ stdout' = stdout \o ProjectPrints(df)
          /\ UNCHANGED <<files, path, input, exc, stats>>

\* df = get_data() and the summary statistics; nothing catches their KeyError
ModuleLevel ==
  /\ pc = "returned"
  /\ IF StatsReads \subseteq df.cols
     THEN /\ pc' = "serving"
          /\ stats' = SummaryStatistics(df)
          /\ exc' = exc
     ELSE /\ pc' = "crashed"
          /\ exc' = "KeyError"
          /\ stats' = stats
  /\ UNCHANGED <<files, path, df, input, stdout>>

Next ==
  \/ TryPath
  \/ NoValidCsv
  \/ NormalizeStep
  \/ FilterStep
  \/ OperatorStep
  \/ NetzbetreiberStep
  \/ ProjectStep
  \/ ModuleLevel

Spec == Init /\ [][Next]_vars

SpecColumns == InitColumns /\ [][Next]_vars

\* ---------------------------------------------------------------------------
\* The stages called on their own
\* ---------------------------------------------------------------------------
CanonCols ==
  {"Anlagename", "Leistung_MW", "Kapazitaet_MWh", "Dauer_Stunden", "Jahr",
   "Datum", "Betreiber", "Bundesland", "Status"}

CanonRow(name, mw, mwh, dur, date, owner) ==
  [c \in CanonCols |->
     CASE c = "Anlagename"     -> name
       [] c = "Leistung_MW"    -> mw
       [] c = "Kapazitaet_MWh" -> mwh
       [] c = "Dauer_Stunden"  -> dur
       [] c = "Jahr"           -> dt_year(date)
       [] c = "Datum"          -> date
       [] c = "Betreiber"      -> owner
       [] c = "Bundesland"     -> IF owner = "RWE" THEN "Bayern" ELSE "Hessen"
       [] OTHER                -> "In Betrieb"]

\* (power, capacity) of a row handed to the aggregator
PartPowerCapacity ==
  {<<Num(0), Num(10000)>>, <<Num(5000), Num(10000)>>, <<Num(10000), NaN>>}

\* (date, owner) of a row handed to the aggregator
PartAttributes ==
  {<<<<2020, 3, 15>>, "RWE">>, <<<<2024, 6, 1>>, "Foo GmbH">>, <<NaN, "RWE">>}

PartRows ==
  {CanonRow(n, p[1], p[2], ReplaceInf(SeriesDiv(p[2], p[1])), a[1], a[2]) :
     n \in {Part1, Part2, OtherPart, Merged, Single},
     p \in PartPowerCapacity, a \in PartAttributes}

Table(cols, rows) ==
  [cols |-> cols, dup |-> {},
   rows |-> [i \in DOMAIN rows |-> [c \in cols |-> rows[i][c]]]]

\* (power, capacity) and (duration, year) of a row handed to the filter
FilterPowerCapacity ==
  {<<NaN, NaN>>, <<NaN, Num(100)>>, <<Num(999), Num(99)>>, <<Num(999), Num(100)>>,
   <<Num(1000), NaN>>, <<Num(1000), Num(99)>>, <<Num(1000), Num(100)>>,
   <<Num(1000001), Num(100)>>}

FilterDurationDate ==
  {<<NaN, NaN>>, <<<<1, 5>>, <<2020, 3, 15>>>>, <<<<4, 1>>, <<2009, 12, 31>>>>,
   <<<<4, 1>>, <<2020, 3, 15>>>>, <<<<4, 1>>, NaN>>}

FilterRows ==
  {CanonRow(Single, p[1], p[2], d[1], d[2], "RWE") :
     p \in FilterPowerCapacity, d \in FilterDurationDate}

\* names handed to the two reverse lookups: every alias, every parent label,
\* a name no table lists, and the missing cell
OperatorNames ==
  (DOMAIN _OPERATOR_LOOKUP)
    \cup {OPERATOR_GROUPS[g][1] : g \in DOMAIN OPERATOR_GROUPS}
    \cup {"Foo GmbH", NaNStr}

NetzbetreiberNames ==
  (DOMAIN nb_lookup)
    \cup {NETZBETREIBER_GROUPS[g][1] : g \in DOMAIN NETZBETREIBER_GROUPS}
    \cup {"Stadtwerke Musterstadt", NaNStr}

NoFiles == <<Missing, Missing, Missing>>

Call(label, T) ==
  /\ pc = label
  /\ files = NoFiles
  /\ path = 1
  /\ df = T
  /\ input = T
  /\ stdout = <<>>
  /\ exc = ""
  /\ stats = NoStatistics

InitConsolidate ==
  \E rows \in SeqsUpTo(PartRows, MaxRows), cols \in {CanonCols, CanonCols \ {"Jahr"}} :
    Call("call_consolidate", Table(cols, rows))

InitFilter ==
  \E rows \in SeqsUpTo(FilterRows, MaxFilterRows) :
    Call("call_filter", Table(CanonCols, rows))

InitResolve ==
  \E o \in OperatorNames, n \in NetzbetreiberNames :
    Call("call_resolve",
         [cols |-> {"Betreiber", "Netzbetreiber"}, dup |-> {},
          rows |-> <<[c \in {"Betreiber", "Netzbetreiber"} |->
                        IF c = "Betreiber" THEN o ELSE n]>>])

\* df = consolidate_multi_part_projects(df), on the input and then on its own
\* result
CallConsolidate ==
  /\ pc \in {"call_consolidate", "consolidated"}
  /\ IF ConsolidateRaises(df)
     THEN /\ pc' = "raised"
          /\ exc' = "KeyError"
          /\ UNCHANGED <<df, stdout>>
     ELSE /\ pc' = IF pc = "call_consolidate" THEN "consolidated" ELSE "reconsolidated"
          /\ df' = consolidate_multi_part_projects(df)
          /\ stdout' = stdout \o ProjectPrints(df)
          /\ exc' = exc
  /\ UNCHANGED <<files, path, input, stats>>

\* df = apply_outlier_filters(df)
CallFilter ==
  /\ pc = "call_filter"
  /\ pc' = "filter_returned"
  /\ df' = apply_outlier_filters(df)
  /\ stdout' = stdout \o FilterPrints(df)
  /\ UNCHANGED <<files, path, input, exc, stats>>

\* the lambdas x -> _OPERATOR_LOOKUP.get(x, x) and x -> nb_lookup.get(x, x)
\* applied to their columns, on the input and then on their own result
ResolveOperator(r) == DictGet(_OPERATOR_LOOKUP, r["Betreiber"])

ResolveNetzbetreiber(r) == DictGet(nb_lookup, r["Netzbetreiber"])

CallResolve ==
  /\ pc \in {"call_resolve", "resolved"}
  /\ pc' = IF pc = "call_resolve" THEN "resolved" ELSE "resolved_again"
  /\ df' = SetCol(SetCol(df, "Betreiber", ResolveOperator),
                  "Netzbetreiber", ResolveNetzbetreiber)
  /\ UNCHANGED <<files, path, input, stdout, exc, stats>>

SpecConsolidate == InitConsolidate /\ [][CallConsolidate]_vars

SpecFilter == InitFilter /\ [][CallFilter]_vars

SpecResolve == InitResolve /\ [][CallResolve]_vars


\* ---------------------------------------------------------------------------
\* Properties of consolidate_multi_part_projects (SpecConsolidate)
\* ---------------------------------------------------------------------------
\* indices of the rows of T that are registered parts of the group named g
PartsOf(T, g) ==
  {i \in DOMAIN T.rows :
     \E k \in DOMAIN PROJECT_GROUPS :
       /\ PROJECT_GROUPS[k][1] = g
       /\ T.rows[i]["Anlagename"] \in Range(PROJECT_GROUPS[k][2])}

\* indices of the rows of T that are registered parts of any group
AllParts(T) ==
  {i \in DOMAIN T.rows :
     \E k \in DOMAIN PROJECT_GROUPS :
       T.rows[i]["Anlagename"] \in Range(PROJECT_GROUPS[k][2])}

\* indices of the rows of T that the aggregator synthesized for the group g
MergedRowsOf(T, g) ==
  IF "Consolidated_Name" \notin T.cols THEN {}
  ELSE {i \in DOMAIN T.rows : T.rows[i]["Consolidated_Name"] = g}

MergedRows(T) ==
  IF "Consolidated_Name" \notin T.cols THEN {}
  ELSE {i \in DOMAIN T.rows : T.rows[i]["Consolidated_Name"] # NaNStr}

PassThroughRows(T) == (DOMAIN T.rows) \ MergedRows(T)

GroupNames == {PROJECT_GROUPS[k][1] : k \in DOMAIN PROJECT_GROUPS}

\* the sum of column c over the rows of T with index in S, a missing value
\* adding nothing
RECURSIVE Total(_, _, _)
Total(T, S, c) ==
  IF S = {} THEN 0
  ELSE LET i == CHOOSE i \in S : TRUE
       IN  (IF T.rows[i][c] = NaN THEN 0 ELSE T.rows[i][c][1]) + Total(T, S \ {i}, c)

\* C1: conservation.  After the aggregator has run, every group with a part
\* in the input has exactly one merged row, whose power and capacity are the
\* sums over the group's parts in the input; so the totals over all parts of
\* the input equal the totals over all merged rows of the output.
C1_Conservation ==
  pc = "consolidated" =>
    /\ \A g \in GroupNames :
         PartsOf(input, g) # {} =>
           /\ Cardinality(MergedRowsOf(df, g)) = 1
           /\ \A m \in MergedRowsOf(df, g) :
                /\ df.rows[m]["Anlagename"] = g
                /\ df.rows[m]["Leistung_MW"] = <<Total(input, PartsOf(input, g), "Leistung_MW")>>
                /\ df.rows[m]["Kapazitaet_MWh"] = <<Total(input, PartsOf(input, g), "Kapazitaet_MWh")>>
    /\ Total(df, MergedRows(df), "Leistung_MW") = Total(input, AllParts(input), "Leistung_MW")
    /\ Total(df, MergedRows(df), "Kapazitaet_MWh") = Total(input, AllParts(input), "Kapazitaet_MWh")

\* two parts of one group with different power were merged into 15 MW
C1_Witness ==
  /\ pc = "consolidated"
  /\ Cardinality(PartsOf(input, Merged)) = 2
  /\ \E m \in MergedRowsOf(df, Merged) :
       /\ df.rows[m]["Leistung_MW"] = <<15000>>
       /\ df.rows[m]["Kapazitaet_MWh"] = <<10000>>

\* C3: row count.  The output has one row per input row that is no
\* registered part, in the input's order and with the input's values, and
\* one row per group that has a part in the input; every part is covered by
\* exactly one merged row.
C3_RowCount ==
  pc = "consolidated" =>
    LET keep == (DOMAIN input.rows) \ AllParts(input)
        groups == {g \in GroupNames : PartsOf(input, g) # {}}
    IN  /\ len(df) = Cardinality(keep) + Cardinality(groups)
        /\ Cardinality(PassThroughRows(df)) = Cardinality(keep)
        /\ \A i \in keep :
             LET j == Cardinality({k \in keep : k <= i})
             IN  \A c \in input.cols : df.rows[j][c] = input.rows[i][c]
        /\ \A i \in AllParts(input) :
             Cardinality({m \in MergedRows(df) : i \in PartsOf(input, df.rows[m]["Consolidated_Name"])}) = 1

\* two parts of one group became a single row
C3_Witness ==
  /\ pc = "consolidated"
  /\ len(input) = 2
  /\ Cardinality(PartsOf(input, Merged)) = 2
  /\ len(df) = 1

\* C4 as claimed: after the aggregator has run, every row that was not
\* synthesized from parts carries its own name in the provenance column;
\* also when no row of the input is a registered part.
C4_ProvenanceOfPassThrough ==
  pc = "consolidated" =>
    \A i \in PassThroughRows(df) :
      /\ "Anlagename_Original_Parts" \in df.cols
      /\ df.rows[i]["Anlagename_Original_Parts"] = df.rows[i]["Anlagename"]

\* C9: running the aggregator on its own output changes nothing: the same
\* rows with the same values in the same columns, and nothing raised.
C9_RerunIsNoOp ==
  [][pc = "consolidated" => (df' = df /\ exc' = exc /\ pc' = "reconsolidated")]_vars

\* the aggregator has run again on a table that holds a merged row and a
\* pass-through row
C9_Witness ==
  /\ pc = "reconsolidated"
  /\ MergedRows(df) # {}
  /\ PassThroughRows(df) # {}

\* ---------------------------------------------------------------------------
\* Properties of the pipeline (Spec, SpecColumns)
\* ---------------------------------------------------------------------------
\* load_and_process_data has returned its table
PipelineReturned == pc \in {"returned", "serving", "crashed"}

InPowerRange(v) == v # NaN /\ v[1] >= min_power_mw /\ v[1] <= max_power_mw

\* C2 as claimed: every row of the table the pipeline returns has its power
\* within [min_power_mw, max_power_mw], or the table has no power column.
C2_AllRowsInPowerRange ==
  PipelineReturned =>
    \A i \in DOMAIN df.rows :
      "Leistung_MW" \in df.cols => InPowerRange(df.rows[i]["Leistung_MW"])

\* C2 as amended: every row of the table the pipeline returns has a power of
\* at least min_power_mw, a row that was not synthesized from parts has a
\* power of at most max_power_mw, or the table has no power column.
C2_PowerRangeOfOutput ==
  (PipelineReturned /\ "Leistung_MW" \in df.cols) =>
      /\ \A i \in DOMAIN df.rows :
           df.rows[i]["Leistung_MW"] # NaN /\ df.rows[i]["Leistung_MW"][1] >= min_power_mw
      /\ \A i \in PassThroughRows(df) : InPowerRange(df.rows[i]["Leistung_MW"])

\* the pipeline returned a merged row above max_power_mw next to nothing else
C2_Witness ==
  /\ pc = "returned"
  /\ \E m \in MergedRows(df) : df.rows[m]["Leistung_MW"][1] > max_power_mw

\* C6 as claimed: when the table handed to the dashboard has no row, the
\* loader has said so (it printed that no csv was found) or the program
\* ended with an exception; the dashboard never serves an empty table as a
\* normal result.
C6_EmptyResultIsSignalled ==
  (pc = "serving" /\ len(df) = 0) =>
    (\E k \in DOMAIN stdout : stdout[k] = "No valid CSV found.") \/ exc # ""

\* C7 as claimed: with any set of raw columns missing from the extract, no
\* stage of load_and_process_data raises; get_data never has an exception
\* of the pipeline to catch.
C7_MissingColumnNeverRaises ==
  \A k \in DOMAIN stdout : stdout[k] # "Error reading"

\* ---------------------------------------------------------------------------
\* Properties of apply_outlier_filters (SpecFilter)
\* ---------------------------------------------------------------------------
\* a row none of whose non-null fields violates its bound
NoFieldOutOfBounds(r) ==
  /\ r["Leistung_MW"] = NaN
       \/ (r["Leistung_MW"][1] >= min_power_mw /\ r["Leistung_MW"][1] <= max_power_mw)
  /\ r["Kapazitaet_MWh"] = NaN \/ r["Kapazitaet_MWh"][1] >= min_capacity_mwh
  /\ r["Dauer_Stunden"] = NaN
       \/ (/\ r["Dauer_Stunden"][1] * Milli >= min_duration_hours * r["Dauer_Stunden"][2]
           /\ r["Dauer_Stunden"][1] * Milli <= max_duration_hours * r["Dauer_Stunden"][2])
  /\ r["Jahr"] = NaN \/ (r["Jahr"][1] >= min_year /\ r["Jahr"][1] <= max_year)

\* C5 as claimed: the filter keeps exactly the rows none of whose non-null
\* fields violates its bound; a null power, capacity, duration or year never
\* removes a row.
C5_NullFieldsPass ==
  pc = "filter_returned" =>
    df.rows = SelectRows(input.rows, NoFieldOutOfBounds)

\* ---------------------------------------------------------------------------
\* Properties of the reverse lookups (SpecResolve)
\* ---------------------------------------------------------------------------
\* C8: resolving an already resolved owner or grid operator changes nothing,
\* for every alias, parent label, unlisted name and the missing cell.
C8_ResolveIdempotent ==
  [][pc = "resolved" => df' = df]_vars

\* both lookups were applied twice to a listed alias
C8_Witness ==
  /\ pc = "resolved_again"
  /\ input.rows[1]["Betreiber"] = "RWE Generation SE"
  /\ df.rows[1]["Betreiber"] = "RWE"
  /\ input.rows[1]["Netzbetreiber"] = "Westnetz GmbH"
  /\ df.rows[1]["Netzbetreiber"] = "Westnetz"

\* ---------------------------------------------------------------------------
\* Properties of the duration (SpecDuration: the pipeline, and the
\* aggregator called on its own)
\* ---------------------------------------------------------------------------
NextDuration == Next \/ CallConsolidate

SpecDuration == (Init \/ InitConsolidate) /\ [][NextDuration]_vars

\* d is the quotient c / p of a capacity and a positive power
IsQuotient(d, c, p) == d # NaN /\ d[2] > 0 /\ d[1] * p = c * d[2]

\* the duration of a row whose duration was just computed from its power p
\* and capacity c
DurationAsComputed(d, p, c) ==
  /\ d \notin {Inf, NegInf}
  /\ (p # NaN /\ c # NaN /\ p[1] > 0) => IsQuotient(d, c[1], p[1])
  /\ (p # NaN /\ p[1] = 0) => d = NaN

\* C10: the duration normalisation computes for a row, and the duration the
\* aggregator computes for a merged row, is capacity / power when the power
\* is positive and null when the power is 0; it is never infinite, and no
\* division by zero ends the run.
C10_Duration ==
  /\ exc # "ZeroDivisionError"
  /\ (pc = "normalized" /\ "Dauer_Stunden" \in df.cols) =>
       \A i \in DOMAIN df.rows :
         DurationAsComputed(df.rows[i]["Dauer_Stunden"], df.rows[i]["Leistung_MW"],
                            df.rows[i]["Kapazitaet_MWh"])
  /\ (pc \in {"returned", "consolidated"}) =>
       \A m \in MergedRows(df) :
         DurationAsComputed(df.rows[m]["Dauer_Stunden"], df.rows[m]["Leistung_MW"],
                            df.rows[m]["Kapazitaet_MWh"])

\* normalisation has seen 10 MW with 40 MWh, which is 4.0 h, and a power of 0
C10_Witness ==
  /\ pc = "normalized"
  /\ \E i \in DOMAIN df.rows :
       /\ df.rows[i]["Leistung_MW"] = <<10000>>
       /\ df.rows[i]["Kapazitaet_MWh"] = <<40000>>
       /\ df.rows[i]["Dauer_Stunden"] = <<4, 1>>
  /\ \E i \in DOMAIN df.rows :
       /\ df.rows[i]["Leistung_MW"] = <<0>>
       /\ df.rows[i]["Dauer_Stunden"] = NaN

\* ---------------------------------------------------------------------------
\* The merge scenario end to end (SpecScenario: the pipeline on any extract,
\* and on the three parts of the one shipped group that lists three)
\* ---------------------------------------------------------------------------
ScenarioName == PROJECT_GROUPS[1][1]

ScenarioParts == PROJECT_GROUPS[1][2]

\* (kW, kWh) of the three parts: 5/5/10 MW and 10/10/20 MWh
ScenarioPowerCapacity ==
  << <<5000, 10000>>, <<5000, 10000>>, <<10000, 20000>> >>

ScenarioRows(owner, q) ==
  [k \in 1..3 |->
     RawRow(ScenarioParts[k],
            << <<"num", ScenarioPowerCapacity[k][1]>>,
               <<"num", ScenarioPowerCapacity[k][2]>> >>,
            <<q[1], q[2], q[3], owner, q[5], q[6]>>)]

Orders(n) == {p \in [1..n -> 1..n] : \A i, j \in 1..n : p[i] = p[j] => i = j}

\* the three parts in any order of the rows, all owned by one listed alias
ScenarioFileSystems ==
  {<<File(Csv(RawHeaders, [k \in 1..3 |-> ScenarioRows(owner, q)[p[k]]])),
     Missing, Missing>> :
     owner \in DOMAIN _OPERATOR_LOOKUP, q \in RawProfiles, p \in Orders(3)}

InitScenario == \E fs \in ScenarioFileSystems : Start(fs)

SpecScenario == (Init \/ InitScenario) /\ [][Next]_vars

\* the parent label of the group of OPERATOR_GROUPS that lists x as an alias,
\* x itself when no group does
ParentLabel(x) ==
  IF \E k \in DOMAIN OPERATOR_GROUPS : x \in Range(OPERATOR_GROUPS[k][2])
  THEN OPERATOR_GROUPS[CHOOSE k \in DOMAIN OPERATOR_GROUPS :
                         x \in Range(OPERATOR_GROUPS[k][2])][1]
  ELSE x

\* the run started from the three scenario rows, in some order
IsScenario ==
  /\ len(input) = 3
  /\ input.cols = RawHeaders
  /\ \A k \in 1..3 : \E i \in 1..3 :
       /\ input.rows[i][H_Name] = ScenarioParts[k]
       /\ input.rows[i][H_kW] = <<"num", ScenarioPowerCapacity[k][1]>>
       /\ input.rows[i][H_kWh] = <<"num", ScenarioPowerCapacity[k][2]>>
  /\ \A i \in 1..3 : input.rows[i][H_Owner] = input.rows[1][H_Owner]

\* the pipeline handed its table back (not the loader's empty table)
PipelineCompleted ==
  /\ pc \in {"returned", "serving", "crashed"}
  /\ stdout # <<>>
  /\ stdout[Len(stdout)] # "No valid CSV found."

\* C11: the three scenario parts (5/5/10 MW, 10/10/20 MWh, one owner alias)
\* come out of the pipeline as exactly one row: the group's name, 20 MW,
\* 40 MWh, 2.0 h, the owner's parent label, and the three part names in
\* ascending order joined by "; " as provenance.  In every run, the owner of
\* a merged row is the parent label of the raw owner of one of the group's
\* parts, never a listed alias.
C11_MergeScenario ==
  PipelineCompleted =>
    /\ IsScenario =>
         /\ len(df) = 1
         /\ df.rows[1]["Anlagename"] = "Speicher Beilrode I"
         /\ df.rows[1]["Leistung_MW"] = <<20000>>
         /\ df.rows[1]["Kapazitaet_MWh"] = <<40000>>
         /\ df.rows[1]["Dauer_Stunden"] = <<2, 1>>
         /\ df.rows[1]["Betreiber"] = ParentLabel(input.rows[1][H_Owner])
         /\ df.rows[1]["Betreiber"] # input.rows[1][H_Owner]
         /\ df.rows[1]["Anlagename_Original_Parts"] =
              "Speicher Beilrode I - Teilanlage 1; Speicher Beilrode I - Teilanlage 5; Speicher Beilrode I - Teilanlage 6"
    /\ \A m \in MergedRows(df) :
         /\ \E i \in DOMAIN input.rows :
              /\ \E k \in DOMAIN PROJECT_GROUPS :
                   /\ PROJECT_GROUPS[k][1] = df.rows[m]["Anlagename"]
                   /\ input.rows[i][H_Name] \in Range(PROJECT_GROUPS[k][2])
              /\ df.rows[m]["Betreiber"] = ParentLabel(input.rows[i][H_Owner])
         /\ \A k \in DOMAIN OPERATOR_GROUPS :
              df.rows[m]["Betreiber"] \notin Range(OPERATOR_GROUPS[k][2])

\* the scenario ran with the rows in descending order of the part names and
\* the alias "RWE Generation SE", and returned its one row owned by "RWE"
C11_Witness ==
  /\ pc = "returned"
  /\ IsScenario
  /\ input.rows[1][H_Name] = ScenarioParts[3]
  /\ input.rows[3][H_Name] = ScenarioParts[1]
  /\ input.rows[1][H_Owner] = "RWE Generation SE"
  /\ len(df) = 1
  /\ df.rows[1]["Betreiber"] = "RWE"
  /\ df.rows[1]["Leistung_MW"] = <<20000>>

\* ---------------------------------------------------------------------------
\* Normalisation (SpecNormalize: the pipeline on extracts whose rows vary in
\* the status text, the numeric cells and the date texts)
\* ---------------------------------------------------------------------------
StatusTexts ==
  {"In Betrieb", "in betrieb", "IN BETRIEB", "Außer Betrieb",
   "In Planung", "vorläufig in Planung", "IN PLANUNG",
   "Betrieb in Planung", "In Planung, danach in Betrieb", "PLANUNG/BETRIEB",
   "Vorübergehend stillgelegt", "Endgültig stillgelegt", "Betrie", "Plan ung",
   NaNStr}

\* (kW, kWh) cells: numbers, text that is no number, an empty cell
NormalizePowerCapacity ==
  { <<<<"num", 10000>>, <<"num", 40000>>>>,
    <<<<"txt", "unbekannt">>, <<"num", 40000>>>>,
    <<<<"num", 10000>>, <<"txt", "k.A.">>>>,
    <<<<"nan">>, <<"num", 40000>>>> }

\* (commissioning date, planned date) texts
NormalizeDates ==
  { <<"15.03.2020", NaNStr>>, <<"31.02.2020", "01.06.2024">>,
    <<"bald", "unbekannt">>, <<NaNStr, "01.06.2024">>,
    <<"15.03.2020", "01.06.2024">> }

NormalizeRows ==
  {RawRow(Single, <<<<"num", 10000>>, <<"num", 40000>>>>,
          <<s, "15.03.2020", NaNStr, "Foo GmbH", NaNStr, "Hessen">>) :
     s \in StatusTexts}
  \cup {RawRow(Single, p, <<"In Betrieb", d[1], d[2], "Foo GmbH", NaNStr, "Hessen">>) :
          p \in NormalizePowerCapacity, d \in NormalizeDates}

NormalizeFileSystems ==
  {<<File(Csv(RawHeaders, rows)), Missing, Missing>> :
     rows \in SeqsUpTo(NormalizeRows, MaxRows)}

InitNormalize == \E fs \in NormalizeFileSystems : Start(fs)

SpecNormalize == InitNormalize /\ [][Next]_vars

Capital ==
  [b |-> "B", e |-> "E", t |-> "T", r |-> "R", i |-> "I", p |-> "P",
   l |-> "L", a |-> "A", n |-> "N", u |-> "U", g |-> "G"]

\* the indicator ind (in small letters) occurs in the text s, in any mix of
\* small and capital letters
HasIndicator(s, ind) ==
  \E k \in 1..(Len(s) - Len(ind) + 1) :
    \A j \in 1..Len(ind) :
      CharAt(s, k + j - 1) \in {CharAt(ind, j), Capital[CharAt(ind, j)]}

\* the status of a row whose raw status is the text s
Classified(s, status) ==
  IF HasIndicator(s, "planung") THEN status = "In Planung"
  ELSE IF HasIndicator(s, "betrieb") THEN status = "In Betrieb"
  ELSE status = s

\* C12 as claimed: after normalisation the status of every row is Planned
\* when its raw status holds both indicators or the planned one only,
\* Operational when it holds the operating one only, and the raw status
\* itself, unchanged, when it holds neither; for every raw status, the
\* missing one included.
C12_StatusAsClaimed ==
  pc = "normalized" =>
    \A i \in DOMAIN df.rows :
      Classified(input.rows[i][H_Status], df.rows[i]["Status"])

\* C12 as amended: as above for every raw status that is a text; a missing
\* raw status comes out as the text "nan".
C12_StatusClassification ==
  pc = "normalized" =>
    \A i \in DOMAIN df.rows :
      IF input.rows[i][H_Status] = NaNStr THEN df.rows[i]["Status"] = "nan"
      ELSE Classified(input.rows[i][H_Status], df.rows[i]["Status"])

\* normalisation has classified a text with both indicators as Planned and
\* a missing status as the text "nan"
C12_Witness ==
  /\ pc = "normalized"
  /\ \E i \in DOMAIN df.rows :
       /\ input.rows[i][H_Status] = "In Planung, danach in Betrieb"
       /\ df.rows[i]["Status"] = "In Planung"
  /\ \E i \in DOMAIN df.rows :
       /\ input.rows[i][H_Status] = NaNStr
       /\ df.rows[i]["Status"] = "nan"

\* ---------------------------------------------------------------------------
\* clean_netzbetreiber_name called on its own (SpecClean)
\* ---------------------------------------------------------------------------
CleanPrefixes == {"", "Westnetz GmbH", " Westnetz GmbH", "(SNB12) Netz", "Netz (SNB7)"}

CleanGaps == {"", " ", "\t "}

CleanSuffixes ==
  {"", "(SNB00000123)", "(SNB)", "(SNB1)", "(SNB12a)", "(snb12)", "SNB12",
   "(SNB12", "[SNB12]"}

CleanTails == {"", " ", "\n"}

\* the names handed to clean_netzbetreiber_name, and the missing cell
CleanNames ==
  {n \in {p \o g \o s \o t :
            p \in CleanPrefixes, g \in CleanGaps, s \in CleanSuffixes,
            t \in CleanTails} : strip(n) # ""}
  \cup {NaNStr}

InitClean ==
  \E name \in CleanNames :
    Call("call_clean",
         [cols |-> {"Netzbetreiber"}, dup |-> {},
          rows |-> <<[c \in {"Netzbetreiber"} |-> name]>>])

\* df['Netzbetreiber'].apply(clean_netzbetreiber_name), on the input and then
\* on its own result
CleanColumn(r) == clean_netzbetreiber_name(r["Netzbetreiber"])

CallClean ==
  /\ pc \in {"call_clean", "cleaned"}
  /\ pc' = IF pc = "call_clean" THEN "cleaned" ELSE "cleaned_again"
  /\ df' = SetCol(df, "Netzbetreiber", CleanColumn)
  /\ UNCHANGED <<files, path, input, stdout, exc, stats>>

SpecClean == InitClean /\ [][CallClean]_vars

AllWhitespace(s, from, to) == \A j \in from..to : CharAt(s, j) \in Whitespace

\* s ends in "(SNB<one or more digits>)" and whitespace only; the suffix
\* opens at position o
SuffixAt(s, o) ==
  /\ o + 5 <= Len(s)
  /\ SubSeq(s, o, o + 3) = "(SNB"
  /\ \E c \in (o + 5)..Len(s) :
       /\ CharAt(s, c) = ")"
       /\ \A j \in (o + 4)..(c - 1) : IsDigit(CharAt(s, j))
       /\ AllWhitespace(s, c + 1, Len(s))

HasSuffix(s) == \E o \in 1..Len(s) : SuffixAt(s, o)

\* what is left of s before its suffix
BeforeSuffix(s) == SubSeq(s, 1, (CHOOSE o \in 1..Len(s) : SuffixAt(s, o)) - 1)

\* r is b without the whitespace at its end
TrimmedRight(r, b) ==
  \E n \in 0..Len(b) :
    /\ r = SubSeq(b, 1, n)
    /\ n = 0 \/ CharAt(b, n) \notin Whitespace
    /\ AllWhitespace(b, n + 1, Len(b))

\* r is b without the whitespace at its start and at its end
Trimmed(r, b) ==
  \E m \in 1..(Len(b) + 1) :
    /\ AllWhitespace(b, 1, m - 1)
    /\ m > Len(b) \/ CharAt(b, m) \notin Whitespace
    /\ TrimmedRight(r, SubSeq(b, m, Len(b)))

\* C13 as claimed: clean(null) is null; a name that ends in the suffix (and
\* whitespace only) loses the suffix with the whitespace around it; every
\* other name keeps its text.
C13_CleanAsClaimed ==
  pc = "cleaned" =>
    LET name == input.rows[1]["Netzbetreiber"]
        cleaned == df.rows[1]["Netzbetreiber"]
    IN  IF name = NaNStr THEN cleaned = NaNStr
        ELSE IF HasSuffix(name) THEN TrimmedRight(cleaned, BeforeSuffix(name))
        ELSE cleaned = name

\* C13 as amended: clean(null) is null; a name that ends in the suffix (and
\* whitespace only) loses the suffix, every other name loses nothing, and in
\* both cases the result is stripped of the whitespace at its start and at
\* its end; clean("Westnetz GmbH (SNB00000123)") = "Westnetz GmbH".
C13_Clean ==
  pc = "cleaned" =>
    LET name == input.rows[1]["Netzbetreiber"]
        cleaned == df.rows[1]["Netzbetreiber"]
    IN  /\ IF name = NaNStr THEN cleaned = NaNStr
           ELSE IF HasSuffix(name) THEN Trimmed(cleaned, BeforeSuffix(name))
           ELSE Trimmed(cleaned, name)
        /\ name = "Westnetz GmbH (SNB00000123)" => cleaned = "Westnetz GmbH"

\* a name with whitespace before it and a suffix followed by whitespace was
\* cleaned to the bare name
C13_Witness ==
  /\ pc = "cleaned"
  /\ input.rows[1]["Netzbetreiber"] = " Westnetz GmbH (SNB00000123) "
  /\ df.rows[1]["Netzbetreiber"] = "Westnetz GmbH"

\* ---------------------------------------------------------------------------
\* consolidate_operator_names called on its own (SpecOwner)
\* ---------------------------------------------------------------------------
OwnerRow(owner) == CanonRow(Single, Num(10000), Num(40000), <<4, 1>>, <<2020, 3, 15>>, owner)

\* owners of the rows of a table of two: an alias, its parent label, an alias
\* of another group, a name no group lists, the missing cell
OwnerSamples == {"RWE Generation SE", "RWE", OPERATOR_GROUPS[1][2][1], "Foo GmbH", NaNStr}

OwnerTables ==
  {<<>>}
    \cup {<<OwnerRow(o)>> : o \in OperatorNames}
    \cup {<<OwnerRow(a), OwnerRow(b)>> : a, b \in OwnerSamples}

InitOwner ==
  \E rows \in OwnerTables, cols \in {CanonCols, CanonCols \ {"Betreiber"}} :
    Call("call_operator", Table(cols, rows))

\* df = consolidate_operator_names(df)
CallOperator ==
  /\ pc = "call_operator"
  /\ pc' = "operator_returned"
  /\ df' = consolidate_operator_names(df)
  /\ stdout' = stdout \o OperatorPrints(df)
  /\ UNCHANGED <<files, path, input, exc, stats>>

SpecOwner == InitOwner /\ [][CallOperator]_vars

\* C14: after the owner consolidator has run on a table with an owner
\* column, every row holds in Betreiber_Original the owner it had before and
\* in Betreiber the parent label of the group that lists that owner as an
\* alias, or that owner itself (null included) when no group does; the rows
\* are the same in number and order and every other column is as it was.  A
\* table without an owner column comes back as it is.  Nothing is raised.
C14_OwnerFrame ==
  pc = "operator_returned" =>
    /\ exc = ""
    /\ IF "Betreiber" \notin input.cols THEN df = input
       ELSE /\ len(df) = len(input)
            /\ df.cols = input.cols \cup {"Betreiber_Original"}
            /\ \A i \in DOMAIN input.rows :
                 /\ df.rows[i]["Betreiber_Original"] = input.rows[i]["Betreiber"]
                 /\ df.rows[i]["Betreiber"] = ParentLabel(input.rows[i]["Betreiber"])
                 /\ \A c \in input.cols \ {"Betreiber"} :
                      df.rows[i][c] = input.rows[i][c]

\* the consolidator has run on a listed alias and a missing owner
C14_Witness ==
  /\ pc = "operator_returned"
  /\ len(input) = 2
  /\ "Betreiber" \in input.cols
  /\ input.rows[1]["Betreiber"] = "RWE Generation SE"
  /\ df.rows[1]["Betreiber"] = "RWE"
  /\ df.rows[1]["Betreiber_Original"] = "RWE Generation SE"
  /\ input.rows[2]["Betreiber"] = NaNStr
  /\ df.rows[2]["Betreiber"] = NaNStr

\* ---------------------------------------------------------------------------
\* consolidate_netzbetreiber_names called on its own (SpecNetzbetreiber)
\* ---------------------------------------------------------------------------
NetzbetreiberCols == CanonCols \cup {"Netzbetreiber"}

NetzbetreiberRow(name) == RowSet(OwnerRow("RWE"), "Netzbetreiber", name)

\* grid operators as the registry writes them: every listed alias, parent
\* label, an unlisted name and the missing cell, bare and with an ID suffix
RegistryNames ==
  NetzbetreiberNames
    \cup {n \o " (SNB00000123)" : n \in NetzbetreiberNames \ {NaNStr}}

NetzbetreiberSamples ==
  {"Westnetz GmbH (SNB00000123)", " Westnetz GmbH", "Westnetz GmbH (SNB)",
   "Stadtwerke Musterstadt(SNB42) ", "Westnetz", "Netze BW GmbH (SNB1) (SNB2)",
   NaNStr}

NetzbetreiberTables ==
  {<<>>}
    \cup {<<NetzbetreiberRow(n)>> : n \in RegistryNames}
    \cup {<<NetzbetreiberRow(a), NetzbetreiberRow(b)>> : a, b \in NetzbetreiberSamples}

InitNetzbetreiber ==
  \E rows \in NetzbetreiberTables, cols \in {NetzbetreiberCols, CanonCols} :
    Call("call_netzbetreiber", Table(cols, rows))

\* df = consolidate_netzbetreiber_names(df)
CallNetzbetreiber ==
  /\ pc = "call_netzbetreiber"
  /\ pc' = "netzbetreiber_returned"
  /\ df' = consolidate_netzbetreiber_names(df)
  /\ stdout' = stdout \o NetzbetreiberPrints(df)
  /\ UNCHANGED <<files, path, input, exc, stats>>

SpecNetzbetreiber == InitNetzbetreiber /\ [][CallNetzbetreiber]_vars

\* the parent label of the group of NETZBETREIBER_GROUPS that lists x as an
\* alias, x itself when no group does
NetzbetreiberParentLabel(x) ==
  IF \E k \in DOMAIN NETZBETREIBER_GROUPS : x \in Range(NETZBETREIBER_GROUPS[k][2])
  THEN NETZBETREIBER_GROUPS[CHOOSE k \in DOMAIN NETZBETREIBER_GROUPS :
                              x \in Range(NETZBETREIBER_GROUPS[k][2])][1]
  ELSE x

\* the cleaned form of a raw grid operator: null for null, else the text
\* without its ID suffix and without whitespace at its start and end
CleanedName(s) ==
  IF s = NaNStr THEN NaNStr
  ELSE LET b == IF HasSuffix(s) THEN BeforeSuffix(s) ELSE s
       IN  CHOOSE r \in {SubSeq(b, m, n) : m \in 1..(Len(b) + 1), n \in 0..Len(b)} :
             Trimmed(r, b)

\* C15: after the grid-operator consolidator has run on a table with a
\* grid-operator column, every row holds in Netzbetreiber_Original the raw
\* value it had before and in Netzbetreiber the parent label of the group
\* that lists the cleaned raw value as an alias, or the cleaned raw value
\* itself when no group does; a missing raw value is missing in both.
C15_GridOperator ==
  (pc = "netzbetreiber_returned" /\ "Netzbetreiber" \in input.cols) =>
    /\ len(df) = len(input)
    /\ \A i \in DOMAIN input.rows :
         LET raw == input.rows[i]["Netzbetreiber"]
         IN  /\ df.rows[i]["Netzbetreiber_Original"] = raw
             /\ df.rows[i]["Netzbetreiber"] = NetzbetreiberParentLabel(CleanedName(raw))
             /\ raw = NaNStr => df.rows[i]["Netzbetreiber"] = NaNStr

\* the consolidator has run on a listed alias with an ID suffix and on a
\* missing grid operator
C15_Witness ==
  /\ pc = "netzbetreiber_returned"
  /\ len(input) = 2
  /\ "Netzbetreiber" \in input.cols
  /\ input.rows[1]["Netzbetreiber"] = "Westnetz GmbH (SNB00000123)"
  /\ df.rows[1]["Netzbetreiber"] = "Westnetz"
  /\ df.rows[1]["Netzbetreiber_Original"] = "Westnetz GmbH (SNB00000123)"
  /\ input.rows[2]["Netzbetreiber"] = NaNStr
  /\ df.rows[2]["Netzbetreiber"] = NaNStr
  /\ df.rows[2]["Netzbetreiber_Original"] = NaNStr

\* ---------------------------------------------------------------------------
\* Order of the stages (Spec)
\* ---------------------------------------------------------------------------
\* the table load_and_process_data returns for the raw table T
Composed(T) ==
  consolidate_multi_part_projects(
    consolidate_netzbetreiber_names(
      consolidate_operator_names(
        apply_outlier_filters(Normalize(T)))))

\* C16: every step of load_and_process_data is the next stage in the order
\* Normalizer, Outlier Filter, Owner Consolidator, Grid-Operator
\* Consolidator, Project Aggregator, applied to the table the stage before
\* it left; a stage is entered only from its predecessor, the raw table is
\* taken in once, before the Normalizer, and what the last stage returns is
\* the composition of the five stages on the raw table.
C16_StageOrder ==
  [][ /\ pc = "read" => (pc' = "normalized" /\ df = input /\ df' = Normalize(df))
      /\ pc = "normalized" => (pc' = "filtered" /\ df' = apply_outlier_filters(df))
      /\ pc = "filtered" => (pc' = "operators" /\ df' = consolidate_operator_names(df))
      /\ pc = "operators" =>
           (pc' = "netzbetreiber" /\ df' = consolidate_netzbetreiber_names(df))
      /\ pc = "netzbetreiber" =>
           /\ pc' = "returned"
           /\ df' = consolidate_multi_part_projects(df)
           /\ df' = Composed(input)
      /\ pc' = "read" => pc = "get_data"
      /\ pc' = "normalized" => pc = "read"
      /\ pc' = "filtered" => pc = "normalized"
      /\ pc' = "operators" => pc = "filtered"
      /\ pc' = "netzbetreiber" => pc = "operators"
      /\ input' # input => (pc = "get_data" /\ pc' = "read")
    ]_vars

\* the five stages have run on two rows, the filter removed one of them and
\* the aggregator merged the other
C16_Witness ==
  /\ PipelineCompleted
  /\ len(input) = 2
  /\ len(df) = 1
  /\ MergedRows(df) = {1}
  /\ df.rows[1]["Betreiber"] = "RWE"
  /\ df.rows[1]["Netzbetreiber"] = "Westnetz"

\* ---------------------------------------------------------------------------
\* Filtering before aggregation (Spec)
\* ---------------------------------------------------------------------------
\* indices of the raw rows that are registered parts of the group named g
RawPartsOf(g) ==
  {i \in DOMAIN input.rows :
     \E k \in DOMAIN PROJECT_GROUPS :
       /\ PROJECT_GROUPS[k][1] = g
       /\ input.rows[i][H_Name] \in Range(PROJECT_GROUPS[k][2])}

\* a raw number of kW or kWh is the same number of thousandths of MW or MWh
IsNumber(cell) == cell[1] = "num"

\* the raw row, taken by itself, is within every bound of OUTLIER_RULES; the
\* duration bounds are 1/4 h and 10 h, so capacity / power >= 1/4 is
\* 4 * capacity >= power and capacity / power <= 10 is capacity <= 10 * power
RawRowPasses(r) ==
  /\ IsNumber(r[H_kW]) /\ r[H_kW][2] >= min_power_mw /\ r[H_kW][2] <= max_power_mw
  /\ IsNumber(r[H_kWh]) /\ r[H_kWh][2] >= min_capacity_mwh
  /\ r[H_kWh][2] * (Milli \div min_duration_hours) >= r[H_kW][2]
  /\ r[H_kWh][2] <= (max_duration_hours \div Milli) * r[H_kW][2]
  /\ LET actual == to_datetime(r[H_Datum])
         date == IF actual = NaN THEN to_datetime(r[H_Geplant]) ELSE actual
     IN  date = NaN \/ (date[1] >= min_year /\ date[1] <= max_year)

RECURSIVE RawTotal(_, _)
RawTotal(S, h) ==
  IF S = {} THEN 0
  ELSE LET i == CHOOSE i \in S : TRUE
       IN  input.rows[i][h][2] + RawTotal(S \ {i}, h)

\* C17: when every part of a group in the extract has a power below
\* min_power_mw, the pipeline's table has no row of that group, also when
\* the parts' powers add up to a value within [min_power_mw, max_power_mw];
\* and the power and capacity of every merged row are the sums over those
\* parts of its group that, each by itself, are within all bounds.
C17_FilterSeesParts ==
  PipelineCompleted =>
    /\ \A g \in GroupNames :
         (/\ RawPartsOf(g) # {}
          /\ \A i \in RawPartsOf(g) :
               IsNumber(input.rows[i][H_kW]) /\ input.rows[i][H_kW][2] < min_power_mw)
         => \A j \in DOMAIN df.rows :
              /\ df.rows[j]["Anlagename"] # g
              /\ \A i \in RawPartsOf(g) : df.rows[j]["Anlagename"] # input.rows[i][H_Name]
    /\ \A m \in MergedRows(df) :
         LET passed == {i \in RawPartsOf(df.rows[m]["Anlagename"]) :
                          RawRowPasses(input.rows[i])}
         IN  /\ passed # {}
             /\ df.rows[m]["Leistung_MW"] = <<RawTotal(passed, H_kW)>>
             /\ df.rows[m]["Kapazitaet_MWh"] = <<RawTotal(passed, H_kWh)>>

\* two parts of one group, 0.6 MW each and 1.2 MW together, went in and no
\* row came out
C17_Witness ==
  /\ PipelineCompleted
  /\ Cardinality(RawPartsOf(Merged)) = 2
  /\ \A i \in RawPartsOf(Merged) : input.rows[i][H_kW] = <<"num", 600>>
  /\ len(df) = 0

\* ---------------------------------------------------------------------------
\* Row retention of the normalisation (SpecNormalize)
\* ---------------------------------------------------------------------------
\* date texts of the extracts that are no date
UnparsableDates == {"31.02.2020", "bald", "unbekannt"}

\* C18: normalisation keeps every row, in order: the normalised table has as
\* many rows as the raw one and row i still carries the name of raw row i;
\* a power or capacity cell that is no number gives a null power or
\* capacity in that row, a date text that is no date gives a null date, and
\* a row with no usable date has a null unified date and year; no stage
\* raises on such a value.
C18_RowsRetained ==
  /\ \A k \in DOMAIN stdout : stdout[k] # "Error reading"
  /\ pc = "normalized" =>
       /\ len(df) = len(input)
       /\ \A i \in DOMAIN input.rows :
            LET raw == input.rows[i]
                row == df.rows[i]
            IN  /\ row["Anlagename"] = raw[H_Name]
                /\ IF IsNumber(raw[H_kW]) THEN row["Leistung_MW"] = <<raw[H_kW][2]>>
                   ELSE row["Leistung_MW"] = NaN
                /\ IF IsNumber(raw[H_kWh]) THEN row["Kapazitaet_MWh"] = <<raw[H_kWh][2]>>
                   ELSE row["Kapazitaet_MWh"] = NaN
                /\ raw[H_Datum] \in UnparsableDates \cup {NaNStr}
                     => row["Inbetriebnahmedatum"] = NaN
                /\ raw[H_Geplant] \in UnparsableDates \cup {NaNStr}
                     => row["Geplantes_Inbetriebnahmedatum"] = NaN
                /\ (/\ raw[H_Datum] \in UnparsableDates \cup {NaNStr}
                    /\ raw[H_Geplant] \in UnparsableDates \cup {NaNStr})
                     => (row["Datum"] = NaN /\ row["Jahr"] = NaN)

\* two raw rows were normalised: one with a power that is no number, one with
\* two date texts that are no dates
C18_Witness ==
  /\ pc = "normalized"
  /\ len(input) = 2
  /\ len(df) = 2
  /\ input.rows[1][H_kW] = <<"txt", "unbekannt">>
  /\ df.rows[1]["Leistung_MW"] = NaN
  /\ input.rows[2][H_Datum] = "bald"
  /\ input.rows[2][H_Geplant] = "unbekannt"
  /\ df.rows[2]["Datum"] = NaN

\* ---------------------------------------------------------------------------
\* Composition of the outlier rules (SpecFilter)
\* ---------------------------------------------------------------------------
\* the four rules as predicates on a row; a null value fails the power, the
\* capacity and the duration rule and passes the year rule
PowerRule(r) ==
  /\ r["Leistung_MW"] # NaN
  /\ r["Leistung_MW"][1] >= min_power_mw /\ r["Leistung_MW"][1] <= max_power_mw

CapacityRule(r) ==
  r["Kapazitaet_MWh"] # NaN /\ r["Kapazitaet_MWh"][1] >= min_capacity_mwh

DurationRule(r) ==
  /\ r["Dauer_Stunden"] # NaN
  /\ r["Dauer_Stunden"][1] * Milli >= min_duration_hours * r["Dauer_Stunden"][2]
  /\ r["Dauer_Stunden"][1] * Milli <= max_duration_hours * r["Dauer_Stunden"][2]

YearRule(r) ==
  r["Jahr"] = NaN \/ (r["Jahr"][1] >= min_year /\ r["Jahr"][1] <= max_year)

AllRules(r) == PowerRule(r) /\ CapacityRule(r) /\ DurationRule(r) /\ YearRule(r)

\* the k-th rule of apply_outlier_filters applied alone
RuleFilter(k, T) ==
  CASE k = 1 -> FilterPower(T)
    [] k = 2 -> FilterCapacity(T)
    [] k = 3 -> FilterDuration(T)
    [] OTHER -> FilterYear(T)

\* the four rules applied in the order p
FilterInOrder(p, T) ==
  RuleFilter(p[4], RuleFilter(p[3], RuleFilter(p[2], RuleFilter(p[1], T))))

\* number of rows of the input that satisfy Before and violate Rule
CountRemoved(Before(_), Rule(_)) ==
  Cardinality({i \in DOMAIN input.rows :
                 Before(input.rows[i]) /\ ~Rule(input.rows[i])})

\* the lines the filter prints for the given total and per-rule counts
Summary(total, n1, n2, n3, n4) ==
  IF total = 0 THEN <<>>
  ELSE <<"Outlier filtering removed " \o ToString(total) \o " records:">>
       \o (IF n1 > 0 THEN <<"  - Power out of range (1.0-1000 MW): " \o ToString(n1)>> ELSE <<>>)
       \o (IF n2 > 0 THEN <<"  - Capacity below 0.1 MWh: " \o ToString(n2)>> ELSE <<>>)
       \o (IF n3 > 0 THEN <<"  - Duration out of range (0.25-10h): " \o ToString(n3)>> ELSE <<>>)
       \o (IF n4 > 0 THEN <<"  - Year out of range (2010-2035): " \o ToString(n4)>> ELSE <<>>)

\* C19: the rows apply_outlier_filters returns are the input rows that
\* satisfy all four rules, in the input's order; the four rules applied in
\* any of their 24 orders return the same rows; and the count the filter
\* reports for a rule is the number of rows that pass the rules before it
\* and fail it, the four counts adding up to the number of rows removed.
C19_RulesCompose ==
  pc = "filter_returned" =>
    LET NoRule(r) == TRUE
        P1(r)  == PowerRule(r)
        P2(r)  == PowerRule(r) /\ CapacityRule(r)
        P3(r)  == PowerRule(r) /\ CapacityRule(r) /\ DurationRule(r)
        n1 == CountRemoved(NoRule, PowerRule)
        n2 == CountRemoved(P1, CapacityRule)
        n3 == CountRemoved(P2, DurationRule)
        n4 == CountRemoved(P3, YearRule)
    IN  /\ df.rows = SelectRows(input.rows, AllRules)
        /\ \A p \in Orders(4) : FilterInOrder(p, input) = df
        /\ n1 + n2 + n3 + n4 = len(input) - len(df)
        /\ stdout = Summary(len(input) - len(df), n1, n2, n3, n4)

\* the filter removed one row by the capacity rule and kept a row with a
\* null year
C19_Witness ==
  /\ pc = "filter_returned"
  /\ len(input) = 2
  /\ len(df) = 1
  /\ df.rows[1]["Jahr"] = NaN
  /\ stdout = <<"Outlier filtering removed 1 records:", "  - Capacity below 0.1 MWh: 1">>

\* ---------------------------------------------------------------------------
\* The aggregator on parts that differ (SpecOrder: the aggregator called on
\* tables of the three parts of one group, two parts of another, a row named
\* as a group and a row of its own, with durations at both bounds; SpecBounds:
\* the same next to the pipeline)
\* ---------------------------------------------------------------------------
\* most rows a table is given here
MaxOrderRows == 3

OrderRows ==
  { CanonRow(ScenarioParts[1], Num(4000), Num(1000), <<1, 4>>, <<2020, 3, 15>>, "RWE"),
    CanonRow(ScenarioParts[2], Num(10000), NaN, NaN, <<2024, 6, 1>>, "Foo GmbH"),
    CanonRow(ScenarioParts[3], Num(7000), Num(70000), <<10, 1>>, NaN, "RWE"),
    CanonRow(Part1, Num(5000), Num(10000), <<2, 1>>, <<2024, 6, 1>>, "Foo GmbH"),
    CanonRow(Part2, Num(0), Num(10000), NaN, <<2020, 3, 15>>, "RWE"),
    CanonRow(Merged, Num(10000), Num(40000), <<4, 1>>, <<2020, 3, 15>>, "RWE"),
    CanonRow(Single, Num(10000), Num(40000), <<4, 1>>, <<2024, 6, 1>>, "Foo GmbH") }

InitOrder ==
  \E rows \in SeqsUpTo(OrderRows, MaxOrderRows) :
    Call("call_consolidate", Table(CanonCols, rows))

SpecOrder == InitOrder /\ [][CallConsolidate]_vars

SpecBounds == (Init \/ InitOrder) /\ [][NextDuration]_vars

\* ---------------------------------------------------------------------------
\* The template of a merged row (SpecBounds: the aggregator as the last
\* stage of the pipeline, and called on its own)
\* ---------------------------------------------------------------------------
\* the attributes a merged row takes over unchanged
TemplateCols ==
  {"Betreiber", "Betreiber_Original", "Netzbetreiber", "Netzbetreiber_Original",
   "Status", "Bundesland"}

\* the aggregator is about to run on df, and runs
AggregatorRuns ==
  /\ pc \in {"netzbetreiber", "call_consolidate"}
  /\ pc' \in {"returned", "consolidated"}

\* the first row of T, in the order of the table, that is a part of g
FirstPart(T, g) == CHOOSE i \in PartsOf(T, g) : \A j \in PartsOf(T, g) : i <= j

\* C21: when the aggregator runs, every merged row carries in its owner,
\* grid operator, status, state and shadow original fields the values of the
\* first part of its group in the order of the table; the values of the other
\* parts are dropped, nothing is raised and nothing but the line that counts
\* the merged parts is printed.
C21_TemplateIsFirstPart ==
  [][AggregatorRuns =>
       /\ exc' = exc
       /\ \A k \in (DOMAIN stdout') \ (DOMAIN stdout) :
            stdout'[k] = "Project consolidation"
       /\ \A g \in GroupNames :
            PartsOf(df, g) # {} =>
              \A m \in MergedRowsOf(df', g) :
                \A c \in TemplateCols \cap df.cols :
                  /\ c \in df'.cols
                  /\ df'.rows[m][c] = df.rows[FirstPart(df, g)][c]]_vars

\* the pipeline merged two parts that differ in owner, grid operator, status
\* and state: the merged row has the attributes of the part that came first
C21_Witness ==
  /\ pc = "returned"
  /\ len(input) = 2
  /\ input.rows[1][H_Name] = Part2
  /\ input.rows[2][H_Name] = Part1
  /\ input.rows[1][H_Owner] = "Foo GmbH"
  /\ input.rows[2][H_Owner] = "RWE Generation SE"
  /\ \E m \in MergedRowsOf(df, Merged) :
       /\ df.rows[m]["Betreiber"] = "Foo GmbH"
       /\ df.rows[m]["Betreiber_Original"] = "Foo GmbH"
       /\ df.rows[m]["Netzbetreiber"] = NaNStr
       /\ df.rows[m]["Status"] = "In Planung"
       /\ df.rows[m]["Bundesland"] = "Hessen"
       /\ df.rows[m]["Leistung_MW"] = <<20000>>

\* ---------------------------------------------------------------------------
\* The year of a merged row (SpecBounds)
\* ---------------------------------------------------------------------------
\* the years, null ones left out, of the rows of T with index in S
YearsOf(T, S) == {T.rows[i]["Jahr"][1] : i \in {j \in S : T.rows[j]["Jahr"] # NaN}}

\* C22: when the aggregator runs on a table with a year column, the year of
\* every merged row is the least of the years of the parts of its group that
\* are not null, and it is null exactly when the year of every part is null.
C22_EarliestYear ==
  [][(AggregatorRuns /\ "Jahr" \in df.cols) =>
       \A g \in GroupNames :
         PartsOf(df, g) # {} =>
           \A m \in MergedRowsOf(df', g) :
             LET years == YearsOf(df, PartsOf(df, g))
                 year  == df'.rows[m]["Jahr"]
             IN  IF years = {} THEN year = NaN
                 ELSE /\ year # NaN
                      /\ year[1] \in years
                      /\ \A y \in years : year[1] <= y]_vars

\* the aggregator merged a part of 2024 that came first with a part of 2020
C22_Witness ==
  /\ pc = "consolidated"
  /\ len(input) = 2
  /\ "Jahr" \in input.cols
  /\ PartsOf(input, "Speicher Beilrode I") = {1, 2}
  /\ input.rows[1]["Jahr"] = <<2024>>
  /\ input.rows[2]["Jahr"] = <<2020>>
  /\ \E m \in MergedRowsOf(df, "Speicher Beilrode I") : df.rows[m]["Jahr"] = <<2020>>

\* ---------------------------------------------------------------------------
\* Extracts that carry a canonical column under more than one header
\* (SpecVariants: the pipeline on such extracts)
\* ---------------------------------------------------------------------------
\* a second header of column_mapping for the power, the owner, the state and
\* the name, and a column that already has the canonical name Netzbetreiber
V_kW    == "Netto-Nennleistung der Einheit"
V_Owner == "Anlagenbetreiber"
V_Land  == "Standort: Bundesland"
V_Name  == "Anzeigename der Einheit"
V_Netz  == "Netzbetreiber"

VariantHeaders == {V_kW, V_Owner, V_Land, V_Name, V_Netz}

\* the raw row r with a cell for each of the second headers
VariantRow(r) ==
  [h \in RawHeaders \cup VariantHeaders |->
     CASE h = V_kW    -> <<"num", 7000>>
       [] h = V_Owner -> "Uniper"
       [] h = V_Land  -> "Sachsen"
       [] h = V_Name  -> "Batteriespeicher Süd"
       [] h = V_Netz  -> "Bayernwerk"
       [] OTHER       -> r[h]]

VariantFileSystems ==
  {<<File(Csv(RawHeaders \cup H, [i \in DOMAIN rows |-> VariantRow(rows[i])])),
     Missing, Missing>> :
     H \in SUBSET VariantHeaders, rows \in (ColumnRows \ {<<>>})}

InitVariants == \E fs \in VariantFileSystems : Start(fs)

SpecVariants == InitVariants /\ [][Next]_vars

\* the canonical names of column_mapping
CanonicalNames == {column_mapping[k][2] : k \in DOMAIN column_mapping}

\* the entries of column_mapping whose raw header, stripped, is a header of T
\* and whose canonical name is c
MatchingEntries(T, c) ==
  {k \in DOMAIN column_mapping :
     /\ column_mapping[k][2] = c
     /\ \E h \in T.cols : strip(h) = column_mapping[k][1]}

\* the header of T that the first matching entry of c names
FirstMatch(T, c) ==
  LET k == CHOOSE k \in MatchingEntries(T, c) : \A j \in MatchingEntries(T, c) : k <= j
  IN  CHOOSE h \in T.cols : strip(h) = column_mapping[k][1]

\* C23 as claimed: the table normalisation has built has exactly one column
\* of every canonical name, and a canonical column that some header of the
\* extract is mapped to holds the cells of the header of the first matching
\* entry of the mapping (the dates parsed).
C23_FirstMatchRenaming ==
  pc = "normalized" =>
    /\ df.dup = {}
    /\ \A c \in CanonicalNames :
         (MatchingEntries(input, c) # {} /\ ~\E h \in input.cols : strip(h) = c) =>
           /\ c \in df.cols
           /\ \A i \in DOMAIN df.rows :
                df.rows[i][c] =
                  IF c \in Range(DateCols)
                  THEN to_datetime(input.rows[i][FirstMatch(input, c)])
                  ELSE input.rows[i][FirstMatch(input, c)]

\* ---------------------------------------------------------------------------
\* The unified date (SpecDates: the pipeline on extracts that lack any set of
\* the raw columns, and on extracts with every kind of date cell)
\* ---------------------------------------------------------------------------
InitDates == InitColumns \/ InitNormalize

SpecDates == InitDates /\ [][Next]_vars

\* the date the row r of T has in column c, null when T has no such column
DateOf(T, r, c) == IF c \in T.cols THEN r[c] ELSE NaN

\* C24: in the table normalisation has built, the unified date of a row is
\* its actual commissioning date when that is not null and its planned
\* commissioning date otherwise, null when both are null or their columns are
\* missing; the year is the calendar year of the unified date, null when the
\* unified date is null.  The dates are those parsed from the extract.
C24_UnifiedDate ==
  pc = "normalized" =>
    /\ {"Datum", "Jahr"} \subseteq df.cols
    /\ len(df) = len(input)
    /\ \A i \in DOMAIN df.rows :
         LET r == df.rows[i]
             actual  == DateOf(df, r, "Inbetriebnahmedatum")
             planned == DateOf(df, r, "Geplantes_Inbetriebnahmedatum")
         IN  /\ H_Datum \in input.cols => actual = to_datetime(input.rows[i][H_Datum])
             /\ H_Geplant \in input.cols => planned = to_datetime(input.rows[i][H_Geplant])
             /\ H_Datum \notin input.cols => actual = NaN
             /\ H_Geplant \notin input.cols => planned = NaN
             /\ r["Datum"] = IF actual # NaN THEN actual ELSE planned
             /\ r["Jahr"] = IF r["Datum"] = NaN THEN NaN ELSE <<r["Datum"][1]>>

\* a row without an actual date took its planned date, 1 June 2024, next to a
\* row with both dates, which took the actual one
C24_Witness ==
  /\ pc = "normalized"
  /\ len(df) = 2
  /\ {H_Datum, H_Geplant} \subseteq input.cols
  /\ input.rows[1][H_Datum] = NaNStr
  /\ input.rows[1][H_Geplant] = "01.06.2024"
  /\ df.rows[1]["Datum"] = <<2024, 6, 1>>
  /\ df.rows[1]["Jahr"] = <<2024>>
  /\ input.rows[2][H_Datum] = "15.03.2020"
  /\ input.rows[2][H_Geplant] = "01.06.2024"
  /\ df.rows[2]["Datum"] = <<2020, 3, 15>>
  /\ df.rows[2]["Jahr"] = <<2020>>

\* ---------------------------------------------------------------------------
\* The project-part table and its reverse lookup (SpecOrder)
\* ---------------------------------------------------------------------------
\* the number of part names PROJECT_GROUPS lists in its first k groups
RECURSIVE NumListed(_)
NumListed(k) == IF k = 0 THEN 0 ELSE Len(PROJECT_GROUPS[k][2]) + NumListed(k - 1)

\* no part name is listed twice in PROJECT_GROUPS, in one group or in two; the
\* reverse lookup has one key per listed part name and gives every part the
\* consolidated name of its group
LookupLosesNoEntry ==
  /\ \A g, h \in DOMAIN PROJECT_GROUPS :
       \A i \in DOMAIN PROJECT_GROUPS[g][2], j \in DOMAIN PROJECT_GROUPS[h][2] :
         PROJECT_GROUPS[g][2][i] = PROJECT_GROUPS[h][2][j] => (g = h /\ i = j)
  /\ Cardinality(DOMAIN _PROJECT_LOOKUP) = NumListed(Len(PROJECT_GROUPS))
  /\ \A g \in DOMAIN PROJECT_GROUPS :
       \A n \in Range(PROJECT_GROUPS[g][2]) : _PROJECT_LOOKUP[n] = PROJECT_GROUPS[g][1]

\* C25: no part name is listed twice in PROJECT_GROUPS, in one group or in
\* two; the reverse lookup has one key per listed part name and gives every
\* part the consolidated name of its group; and a part in the input of the
\* aggregator is a part of exactly one group, whose merged row is in the
\* output.
C25_PartInOneGroup ==
  /\ LookupLosesNoEntry
  /\ pc = "consolidated" =>
       \A i \in AllParts(input) :
         /\ Cardinality({g \in GroupNames : i \in PartsOf(input, g)}) = 1
         /\ \E m \in MergedRows(df) :
              /\ df.rows[m]["Consolidated_Name"] = _PROJECT_LOOKUP[input.rows[i]["Anlagename"]]
              /\ i \in PartsOf(input, df.rows[m]["Consolidated_Name"])

\* the lookup of 23 keys resolved a part of each of two groups
C25_Witness ==
  /\ Cardinality(DOMAIN _PROJECT_LOOKUP) = 23
  /\ pc = "consolidated"
  /\ len(input) = 2
  /\ input.rows[1]["Anlagename"] = Part1
  /\ input.rows[2]["Anlagename"] = "Speicher Beilrode I - Teilanlage 5"
  /\ \E m \in MergedRowsOf(df, Merged) : df.rows[m]["Anlagename"] = Merged
  /\ \E m \in MergedRowsOf(df, "Speicher Beilrode I") :
       df.rows[m]["Anlagename"] = "Speicher Beilrode I"

\* ---------------------------------------------------------------------------
\* The aggregator and the order of the rows (SpecOrder)
\* ---------------------------------------------------------------------------
\* the rows of T in the order p
Permute(T, p) == [T EXCEPT !.rows = [k \in DOMAIN T.rows |-> T.rows[p[k]]]]

\* the rows of T that are parts of the group g, and no other row
OnlyGroup(T, g) ==
  LET InGroup(r) == r["Anlagename"] \in DOMAIN _PROJECT_LOOKUP
                      /\ _PROJECT_LOOKUP[r["Anlagename"]] = g
  IN  Filter(T, InGroup)

\* the fields of a merged row that are computed from all parts of its group
SummedCols ==
  {"Anlagename", "Leistung_MW", "Kapazitaet_MWh", "Dauer_Stunden", "Jahr",
   "Anlagename_Original_Parts"}

\* A and B have a merged row for the same groups, with the same summed fields
SameMergedRows(A, B) ==
  \A g \in GroupNames :
    /\ Cardinality(MergedRowsOf(A, g)) = Cardinality(MergedRowsOf(B, g))
    /\ \A a \in MergedRowsOf(A, g), b \in MergedRowsOf(B, g) :
         \A c \in SummedCols : A.rows[a][c] = B.rows[b][c]

\* A and B have the same rows that are not merged rows, each as often
SamePassThrough(A, B) ==
  \A r \in {A.rows[i] : i \in PassThroughRows(A)} \cup {B.rows[i] : i \in PassThroughRows(B)} :
    Cardinality({i \in PassThroughRows(A) : A.rows[i] = r})
      = Cardinality({i \in PassThroughRows(B) : B.rows[i] = r})

InDurationBounds(d) ==
  /\ d # NaN
  /\ d[2] > 0
  /\ d[1] * Milli >= min_duration_hours * d[2]
  /\ d[1] * Milli <= max_duration_hours * d[2]

\* the row r has a positive power and a duration within the bounds
PartInBounds(r) ==
  /\ r["Leistung_MW"] # NaN
  /\ r["Leistung_MW"][1] > 0
  /\ InDurationBounds(r["Dauer_Stunden"])

C28_YearOfOwnDate ==
  PipelineReturned =>
    \A i \in DOMAIN df.rows :
      df.rows[i]["Jahr"] =
        IF df.rows[i]["Datum"] = NaN THEN NaN ELSE <<df.rows[i]["Datum"][1]>>

\* ---------------------------------------------------------------------------
\* Project names of the output of the aggregator (SpecConsolidate)
\* ---------------------------------------------------------------------------
\* no two rows of T have the same project name
DistinctNames(T) ==
  \A i, j \in DOMAIN T.rows :
    T.rows[i]["Anlagename"] = T.rows[j]["Anlagename"] => i = j

\* C29 as claimed: when the project names of the input of the aggregator are
\* pairwise distinct, so are the project names of its output; a merged row
\* never has the name of a row that was passed through.
C29_NamesStayDistinct ==
  (pc = "consolidated" /\ DistinctNames(input)) => DistinctNames(df)

\* ---------------------------------------------------------------------------
\* Cleaning a cleaned name (SpecClean)
\* ---------------------------------------------------------------------------
\* C30 as claimed: cleaning a cleaned name changes nothing, for every name,
\* also one that ends in more than one suffix.
C30_CleanIdempotentAsClaimed ==
  [][pc = "cleaned" => df' = df]_vars

\* s ends in more than one suffix
HasSecondSuffix(s) == s # NaNStr /\ HasSuffix(s) /\ HasSuffix(BeforeSuffix(s))

\* C30 as amended: cleaning a cleaned name changes nothing for null and for
\* every name that ends in at most one suffix; of a name that ends in more
\* than one suffix every call removes the last one only, so that the second
\* call removes the suffix the first one has left.
C30_CleanIdempotent ==
  [][pc = "cleaned" =>
       LET name == input.rows[1]["Netzbetreiber"]
           cleaned == df.rows[1]["Netzbetreiber"]
           again == df'.rows[1]["Netzbetreiber"]
       IN  IF HasSecondSuffix(name)
           THEN /\ HasSuffix(cleaned)
                /\ again # cleaned
                /\ Trimmed(again, BeforeSuffix(cleaned))
           ELSE df' = df]_vars

\* a name with one suffix followed by whitespace was cleaned twice and is the
\* bare name
C30_Witness ==
  /\ pc = "cleaned_again"
  /\ input.rows[1]["Netzbetreiber"] = "Westnetz GmbH (SNB00000123) "
  /\ df.rows[1]["Netzbetreiber"] = "Westnetz GmbH"
=============================================================================
